---- MODULE Spec2Model ----
(***************************************************************************)
(* A model of the laia agent runtime (Paulo-Borszcz/laia):                 *)
(*   - session.Manager: per-user locks and the periodic Cleanup sweep      *)
(*   - ai.Agent.allowRequest: the per-user rate limiter                    *)
(*   - ai.Agent.Handle: the bounded model/tool iteration loop              *)
(*   - ai.ClassifyError: the error classifier                              *)
(*   - store.BoltStore.SaveHistory: what is kept of a transcript           *)
(*   - ai.Registry.ExecuteTool: validation and output truncation           *)
(*   - ai.Agent.chatCompletion: the retry loop around the model endpoint   *)
(*   - bot.Handler.HandleMessage and handleCommand: who gets a run, the    *)
(*     reply sent after it, the unlinking after an auth failure            *)
(*   - auth.Handler.HandleVerifySubmit: the linking of an account          *)
(* The specifications share the variables: SpecLock and SpecLockFair       *)
(* (session manager, without and with a fair mutex), SpecRace (session     *)
(* manager with the Cleanup sweep as a goroutine of its own), SpecRate     *)
(* (rate limiter in front of Handle), Spec (one run of Agent.Handle on a   *)
(* new conversation), SpecRecovery (one run without tool requests, over    *)
(* the stored histories), SpecCall (one run with get_ticket requests and   *)
(* every kind of tool failure), SpecCancel (one run whose ctx may be       *)
(* cancelled), SpecLink (successive messages of one user), SpecStore (one  *)
(* SaveHistory), SpecTool (one ExecuteTool), SpecChat (one chatCompletion) *)
(* and SpecClassify (one ClassifyError).  Each leaves the other            *)
(* components' variables unchanged.                                        *)
(***************************************************************************)
EXTENDS Integers, Sequences, FiniteSets, TLC

\* ---------------------------------------------------------------- bounds
NumProcs == 2           \* concurrent HandleMessage goroutines
MaxFragments == 2       \* marker-bearing fragments in one error text
MaxLocks == 2           \* userLock objects ever allocated
MaxNow == 2             \* clock ticks

\* ------------------------------------------------------ program constants
lockMaxAge == 1         \* Cleanup(1 * time.Hour); the clock unit is one hour
rateLimitWindow == 1    \* time.Minute; in SpecRate the clock unit is one minute
rateLimitMax == 10

Users == {"u1", "u2"}
Procs == 1..NumProcs
LockIds == 1..MaxLocks

VARIABLES
    now,        \* time.Now()
    \* --- session.Manager
    mutexes,    \* Manager.mutexes: user -> userLock id, 0 when the key is absent
    lockHeld,   \* userLock.mu: lock id -> holding goroutine, 0 when free
    lastUsed,   \* userLock.lastUsed: lock id -> time
    allocated,  \* number of userLock objects created so far
    wpc,        \* goroutine -> position inside WithLock
    wuser,      \* goroutine -> phone argument of its WithLock call
    wul,        \* goroutine -> the userLock (ul) it fetched, 0 when none
    wret,       \* goroutine -> what its last WithLock call returned, "none" before the first
    sweep,      \* the goroutine of the hourly Cleanup: "idle", or "scan" inside Cleanup holding m.mu
    \* --- Agent.counters and what the last Handle call of a user did
    counters,   \* Agent.counters: user -> rateBucket (ok = FALSE: key absent)
    winStart,   \* user -> time of the first admitted message of the window
    winAdmits,  \* user -> messages admitted in that window
    lastRun,    \* user -> effects of the user's most recent Handle call, and the reply of the one before
    \* --- one run of Agent.Handle(ctx, user, Phone, text)
    pc,             \* position of the run: start, model, seq, par, done
    outcome,        \* what Handle returned
    session,        \* the helpdesk session: none, open, closed
    stored,         \* the store's history record of Phone
    saves,          \* calls of store.SaveHistory made by the run
    messages,       \* messages: the request sent to the model
    allTurns,       \* allTurns: the transcript to persist
    iter,           \* iterations of the loop "for range maxToolIterations" begun
    pruneAttempt,   \* pruneAttempt
    lastToolSig,    \* lastToolSig
    sameExactCount, \* sameExactCount
    toolNameCounts, \* toolNameCounts
    batch,          \* msg.ToolCalls of the current model turn, with each call's progress
    idx,            \* position of the sequential loop over msg.ToolCalls
    nextId,         \* tool-call ids handed out by the model so far
    chat,           \* a call of Agent.chatCompletion: the responses of the endpoint, the attempts made, the result
    call,           \* a call of Registry.ExecuteTool: tool, arguments, what Execute returns
    ret,            \* what that call of Registry.ExecuteTool returned
    toolErr,        \* a call of ClassifyError: the error text and the ToolError returned
    cancelled,      \* the ctx handed to Handle has been cancelled
    reply,          \* what Handler.handleCommand sent to the user after the run
    users,          \* the phones with a record in the store's users bucket
    inbox,          \* the number of the message Handler.HandleMessage is handling
    links,          \* the messages that were answered with a verification link
    \* --- observations of the run (not program state)
    modelCalls,     \* calls of chatCompletion
    streak,         \* the latest calls of chatCompletion in a row that failed with a context-length error or a 400
    reqLast,        \* signature of the latest tool call the model requested
    reqRun,         \* how many times in a row it has been requested
    clears,         \* calls of store.ClearHistory made by the run
    firstClear,     \* the model call whose failure led to the first of them, 0 when none
    tripCall,       \* the model call at which a signature first came more than doomLoopExactThreshold times in a row, 0 when none
    nameReq,        \* tool name -> calls of it the model requested
    dispatched,     \* tool name -> calls of it handed to Registry.ExecuteTool
    reported,       \* the results of get_ticket calls appended since the model last answered: call id, what its executions came back with, the result
    transcript,     \* the history read, the user's turn and every turn the run appended, nothing dropped
    failed          \* calls of the current batch that failed for good: id and error text

lockVars == <<mutexes, lockHeld, lastUsed, allocated, wpc, wuser, wul, wret, sweep>>
rateVars == <<counters, winStart, winAdmits, lastRun>>
loopVars == <<messages, allTurns, iter, pruneAttempt, lastToolSig, sameExactCount,
              toolNameCounts, batch, idx, nextId>>
obsVars == <<modelCalls, streak, clears, firstClear, reqLast, reqRun, tripCall, nameReq, dispatched, failed>>
toolVars == <<call, ret, chat, toolErr>>
linkVars == <<users, inbox, links>>
agentVars == <<pc, outcome, session, stored, saves, reply, loopVars, obsVars, toolVars, transcript, reported, cancelled, linkVars>>
vars == <<now, lockVars, rateVars, agentVars>>

\* the zero time.Time of a freshly allocated userLock: older than any maxAge
ZeroTime == 0 - (MaxNow + lockMaxAge + 1)

\* ======================================================= session.Manager
NewManager ==
    /\ mutexes = [u \in Users |-> 0]
    /\ lockHeld = [l \in LockIds |-> 0]
    /\ lastUsed = [l \in LockIds |-> ZeroTime]
    /\ allocated = 0
    /\ wpc = [p \in Procs |-> "idle"]
    /\ wuser = [p \in Procs |-> "u1"]
    /\ wul = [p \in Procs |-> 0]
    /\ wret = [p \in Procs |-> "none"]
    /\ sweep = "idle"

\* WithLock, lines 109-115: under m.mu, fetch the user's lock or create it
WithLockLookup(p, u) ==
    /\ wpc[p] = "idle"
    /\ sweep = "idle"
    /\ IF mutexes[u] # 0
         THEN /\ wul' = [wul EXCEPT ![p] = mutexes[u]]
              /\ UNCHANGED <<mutexes, allocated, lastUsed, lockHeld>>
         ELSE /\ allocated < MaxLocks
              /\ allocated' = allocated + 1
              /\ mutexes' = [mutexes EXCEPT ![u] = allocated + 1]
              /\ lastUsed' = [lastUsed EXCEPT ![allocated + 1] = ZeroTime]
              /\ lockHeld' = [lockHeld EXCEPT ![allocated + 1] = 0]
              /\ wul' = [wul EXCEPT ![p] = allocated + 1]
    /\ wuser' = [wuser EXCEPT ![p] = u]
    /\ wpc' = [wpc EXCEPT ![p] = "acquire"]
    /\ UNCHANGED <<now, wret, sweep, rateVars, agentVars>>

\* WithLock, line 117: ul.mu.Lock() blocks until the fetched lock is free
WithLockAcquire(p) ==
    /\ wpc[p] = "acquire"
    /\ lockHeld[wul[p]] = 0
    /\ lockHeld' = [lockHeld EXCEPT ![wul[p]] = p]
    /\ wpc' = [wpc EXCEPT ![p] = "touch"]
    /\ UNCHANGED <<now, mutexes, lastUsed, allocated, wuser, wul, wret, sweep, rateVars, agentVars>>

\* WithLock, line 120: ul.lastUsed = time.Now(); then fn starts
WithLockTouch(p) ==
    /\ wpc[p] = "touch"
    /\ lastUsed' = [lastUsed EXCEPT ![wul[p]] = now]
    /\ wpc' = [wpc EXCEPT ![p] = "fn"]
    /\ UNCHANGED <<now, mutexes, lockHeld, allocated, wuser, wul, wret, sweep, rateVars, agentVars>>

\* what fn returns, handed on by WithLock
FnResults == {"nil", "error"}
\* (variant: an unlock placed after the call of fn, skipped when fn fails)
UnlockOnSuccess(held, l, err) == IF err = "nil" THEN [held EXCEPT ![l] = 0] ELSE held
\* line 118, the deferred ul.mu.Unlock(): it runs whatever fn returned
DeferredUnlock(held, l, err) == [held EXCEPT ![l] = 0]

\* WithLock, lines 121 and 118: fn returns err, the deferred unlock runs
WithLockReturn(p, err) ==
    /\ wpc[p] = "fn"
    /\ lockHeld' = DeferredUnlock(lockHeld, wul[p], err)
    /\ wret' = [wret EXCEPT ![p] = err]
    /\ wpc' = [wpc EXCEPT ![p] = "idle"]
    /\ wul' = [wul EXCEPT ![p] = 0]
    /\ UNCHANGED <<now, mutexes, lastUsed, allocated, wuser, sweep, rateVars, agentVars>>

\* the test of Cleanup, line 131
Stale(l, maxAge) == now - lastUsed[l] > maxAge

\* Cleanup, lines 125-135: under m.mu, delete every entry not used within maxAge
Cleanup(maxAge) ==
    /\ mutexes' = [u \in Users |->
                      IF mutexes[u] # 0 /\ Stale(mutexes[u], maxAge)
                        THEN 0 ELSE mutexes[u]]
    /\ mutexes' # mutexes
    /\ UNCHANGED <<now, lockHeld, lastUsed, allocated, wpc, wuser, wul, wret, sweep, rateVars, agentVars>>

\* Cleanup, lines 126-127: m.mu.Lock(); the sweep is inside Cleanup
CleanupLock ==
    /\ sweep = "idle"
    /\ sweep' = "scan"
    /\ UNCHANGED <<now, mutexes, lockHeld, lastUsed, allocated, wpc, wuser, wul, wret,
                   rateVars, agentVars>>

\* the userLocks whose lastUsed a goroutine is writing at line 120, holding
\* ul.mu and not m.mu
BeingTouched == {wul[p] : p \in {q \in Procs : wpc[q] = "touch"}}

\* Cleanup, lines 129-135: the loop over the map and the deferred unlock.
\* What the test of line 131 reads of a lastUsed that is being written at
\* the same time is not defined: the entry goes or stays
CleanupSweep(maxAge) ==
    /\ sweep = "scan"
    /\ \E torn \in SUBSET {u \in Users : mutexes[u] \in BeingTouched} :
          mutexes' = [u \in Users |->
                         IF mutexes[u] = 0 THEN 0
                         ELSE IF u \in torn THEN 0
                         ELSE IF mutexes[u] \in BeingTouched THEN mutexes[u]
                         ELSE IF Stale(mutexes[u], maxAge) THEN 0 ELSE mutexes[u]]
    /\ sweep' = "idle"
    /\ UNCHANGED <<now, lockHeld, lastUsed, allocated, wpc, wuser, wul, wret, rateVars, agentVars>>

\* time passes
Tick ==
    /\ now < MaxNow
    /\ now' = now + 1
    /\ UNCHANGED <<lockVars, rateVars, agentVars>>

\* ===================================================== Agent.allowRequest
NoBucket == [ok |-> FALSE, count |-> 0, window |-> 0]

\* (variant: the window restarts once a full window has passed, not more)
WindowExpiredAtEdge(b, t) == t - b.window >= rateLimitWindow
\* the window test of allowRequest, line 579
WindowExpired(b, t) == t - b.window > rateLimitWindow

\* the limit test of allowRequest, line 583
\* (variant: a bucket that admits one message more)
BucketFullLate(b) == b.count > rateLimitMax
BucketFull(b) == b.count >= rateLimitMax

\* allowRequest, lines 573-588: the verdict and the bucket it leaves
allowRequest(b, t) ==
    IF ~b.ok \/ WindowExpired(b, t)
      THEN [allowed |-> TRUE, bucket |-> [ok |-> TRUE, count |-> 1, window |-> t]]
      ELSE IF BucketFull(b)
        THEN [allowed |-> FALSE, bucket |-> b]
        ELSE [allowed |-> TRUE, bucket |-> [b EXCEPT !.count = b.count + 1]]

\* what one Handle call did: the reply it returned, and whether it called
\* store.GetHistory, glpi.InitSession, the model (and with it tools, SaveHistory)
NoRun == [resp |-> "none", history |-> FALSE, session |-> FALSE, model |-> FALSE,
          after |-> "none"]
Throttled == [resp |-> "throttled", history |-> FALSE, session |-> FALSE, model |-> FALSE,
              after |-> "none"]

NewAgent ==
    /\ counters = [u \in Users |-> NoBucket]
    /\ winStart = [u \in Users |-> 0 - 1]
    /\ winAdmits = [u \in Users |-> 0]
    /\ lastRun = [u \in Users |-> NoRun]

\* Handle, lines 121-124: a message the limiter rejects gets the fixed
\* throttling text and Handle returns before touching anything else
HandleThrottled(u) ==
    LET r == allowRequest(counters[u], now) IN
    /\ ~r.allowed
    /\ counters' = [counters EXCEPT ![u] = r.bucket]
    /\ lastRun' = [lastRun EXCEPT ![u] = [Throttled EXCEPT !.after = lastRun[u].resp]]
    /\ UNCHANGED <<now, winStart, winAdmits, lockVars, agentVars>>

\* Handle, lines 121-137: an admitted message goes on to GetHistory,
\* InitSession and the agent loop (the run itself is specification Spec)
HandleAdmitted(u) ==
    LET r == allowRequest(counters[u], now) IN
    /\ r.allowed
    /\ counters' = [counters EXCEPT ![u] = r.bucket]
    /\ \E started \in BOOLEAN :      \* InitSession may fail, line 132
         lastRun' = [lastRun EXCEPT ![u] =
            [resp |-> IF started THEN "reply" ELSE "initSession error",
             history |-> TRUE, session |-> TRUE, model |-> started,
             after |-> lastRun[u].resp]]
    /\ IF winStart[u] < 0 \/ now - winStart[u] > rateLimitWindow
         THEN /\ winStart' = [winStart EXCEPT ![u] = now]
              /\ winAdmits' = [winAdmits EXCEPT ![u] = 1]
         ELSE /\ winAdmits' = [winAdmits EXCEPT ![u] = winAdmits[u] + 1]
              /\ UNCHANGED winStart
    /\ UNCHANGED <<now, lockVars, agentVars>>

\* ============================================================ ai.ClassifyError
\* An error text is modelled by the set of fragments it contains, written as
\* they appear in the text; strings.ToLower and strings.Contains are the two
\* tables below (accented letters are written without the accent).
ToLower(s) ==
    CASE s = "Timeout" -> "timeout"
      [] s = "Unauthorized" -> "unauthorized"
      [] s = "ERROR_SESSION_TOKEN_INVALID" -> "error_session_token_invalid"
      [] s = "initSession" -> "initsession"
      [] OTHER -> s

Contains(s, sub) ==
    \/ s = sub
    \/ <<s, sub>> \in {<<"error_session_token_invalid", "session">>,
                       <<"initsession", "session">>,
                       <<"item not found", "not found">>,
                       <<"gateway timeout", "timeout">>}

containsAny(raw, patterns) ==
    \E f \in raw, q \in patterns : Contains(ToLower(f), ToLower(q))

\* (variant: the authentication markers looked for before the timeout ones)
ClassifyAuthFirst(raw) ==
    IF containsAny(raw, {"401", "unauthorized", "invalid.*token", "ERROR_SESSION_TOKEN_INVALID"})
      THEN [type |-> "auth_error", retryable |-> FALSE, message |-> {"Sua sessao expirou"}]
    ELSE IF containsAny(raw, {"context deadline exceeded", "timeout"})
      THEN [type |-> "timeout", retryable |-> TRUE, message |-> {"O Nexus demorou para responder"}]
    ELSE [type |-> "server_error", retryable |-> FALSE, message |-> {"Erro inesperado ao acessar o Nexus"}]

\* (variant: a classifier without the authentication case)
ClassifyWithoutAuth(raw) ==
    IF containsAny(raw, {"context deadline exceeded", "timeout"})
      THEN [type |-> "timeout", retryable |-> TRUE, message |-> {"fixed"}]
      ELSE [type |-> "server_error", retryable |-> FALSE, message |-> {"fixed"}]

ClassifyError(raw) ==
    IF containsAny(raw, {"context deadline exceeded", "timeout"})
      THEN [type |-> "timeout", retryable |-> TRUE, message |-> {"O Nexus demorou para responder"}]
    ELSE IF containsAny(raw, {"401", "unauthorized", "invalid.*token", "ERROR_SESSION_TOKEN_INVALID"})
      THEN [type |-> "auth_error", retryable |-> FALSE, message |-> {"Sua sessao expirou"}]
    ELSE IF containsAny(raw, {"404", "not found", "item not found"})
      THEN [type |-> "not_found", retryable |-> FALSE, message |-> {"Recurso nao encontrado"}]
    ELSE IF containsAny(raw, {"429", "rate limit", "too many requests"})
      THEN [type |-> "rate_limit", retryable |-> TRUE, message |-> {"Servidor ocupado"}]
    ELSE IF containsAny(raw, {"500", "502", "503", "504", "server error", "internal error"})
      THEN [type |-> "server_error", retryable |-> TRUE, message |-> {"O Nexus esta temporariamente indisponivel"}]
    ELSE IF containsAny(raw, {"session", "sessao", "initSession"})
      THEN [type |-> "session_error", retryable |-> FALSE, message |-> {"Erro na sessao do Nexus"}]
    ELSE IF containsAny(raw, {"argumento", "obrigatorio", "invalido", "deve ser"})
      THEN [type |-> "validation", retryable |-> FALSE, message |-> raw]
    ELSE [type |-> "server_error", retryable |-> FALSE, message |-> {"Erro inesperado ao acessar o Nexus"}]

\* one call of ClassifyError on an error text of up to two fragments
Fragments ==
    {"context deadline exceeded", "gateway timeout", "Timeout", "401", "Unauthorized",
     "invalid token", "ERROR_SESSION_TOKEN_INVALID", "404", "item not found", "429",
     "rate limit", "500", "504", "server error", "initSession", "session",
     "deve ser", "argumento", "connection refused"}
ErrorTexts == {raw \in SUBSET Fragments : Cardinality(raw) <= MaxFragments}
NoToolError == [type |-> "", retryable |-> FALSE, message |-> {}]
NoClassify == [raw |-> {}, te |-> NoToolError]

\* ===================================================== ai.Registry.ExecuteTool
maxListItems == 10
maxOutputLen == 8192

\* JSON values of an argument map; Absent is a key that is not in the map
Absent == [kind |-> "absent", s |-> ""]
Null == [kind |-> "null", s |-> ""]
Str(s) == [kind |-> "string", s |-> s]
Num == [kind |-> "number", s |-> "1"]
Bool == [kind |-> "bool", s |-> "true"]
Values == {Absent, Null, Str(""), Str("a"), Str("z"), Num, Bool}

\* ParamSchema: Required in its order, and Properties (NoProp: no entry)
Fields == {"f1", "f2"}
NoProp == [type |-> "", enum |-> {}]
Props ==
    {NoProp, [type |-> "string", enum |-> {}], [type |-> "string", enum |-> {"a"}],
     [type |-> "integer", enum |-> {}], [type |-> "number", enum |-> {}],
     [type |-> "boolean", enum |-> {}]}
RequiredLists == {<<>>, <<"f1">>, <<"f2">>, <<"f1", "f2">>, <<"f2", "f1">>}
NilSchema == [nil |-> TRUE, required |-> <<>>, properties |-> [f \in Fields |-> NoProp]]
Schemas ==
    {[nil |-> FALSE, required |-> r, properties |-> p] :
        r \in RequiredLists, p \in [Fields -> Props]}

\* (variant: a check that only looks for the key)
CheckFieldPresence(prop, v) == IF v = Absent THEN "ausente" ELSE ""
\* validateArgs, lines 162-199: the error for one required field, "" if none
CheckField(prop, v) ==
    IF v = Absent \/ v = Null THEN "ausente"
    ELSE IF prop = NoProp THEN ""
    ELSE IF prop.type = "string"
      THEN IF v.kind # "string" THEN "deve ser string"
           ELSE IF v.s = "" THEN "nao pode ser vazio"
           ELSE IF prop.enum # {} /\ v.s \notin prop.enum THEN "deve ser um de"
           ELSE ""
    ELSE IF prop.type \in {"integer", "number"}
      THEN IF v.kind # "number" THEN "deve ser numerico" ELSE ""
    ELSE ""

\* validateArgs: the first error in the order of schema.Required, "" if none
RECURSIVE FirstError(_, _, _)
FirstError(required, properties, args) ==
    IF required = <<>> THEN ""
    ELSE LET e == CheckField(properties[Head(required)], args[Head(required)]) IN
         IF e # "" THEN e ELSE FirstError(Tail(required), properties, args)
validateArgs(schema, args) == FirstError(schema.required, schema.properties, args)

\* a tool result: per list field the number of records, the bytes of one
\* record (kept fields, and the fields the truncation strips), the bytes of
\* everything else, and the markers truncateOutput adds
ListKeys == {"chamados", "artigos"}
Payloads ==
    {[count |-> c, keep |-> k, strip |-> v, rest |-> r, truncated |-> FALSE, field |-> "",
      original |-> 0, summary |-> FALSE] :
        c \in [ListKeys -> {0, maxListItems, maxListItems + 1}],
        k \in {50, 1000}, v \in {0, 500}, r \in {100, 9000}}

\* len(json.Marshal(result))
RECURSIVE ListBytes(_, _)
ListBytes(p, keys) ==
    IF keys = {} THEN 0
    ELSE LET k == CHOOSE x \in keys : TRUE IN
         p.count[k] * (p.keep + (IF p.truncated /\ p.field = k THEN 0 ELSE p.strip))
             + ListBytes(p, keys \ {k})
Marshalled(p) ==
    IF p.summary THEN maxOutputLen + 33
    ELSE p.rest + ListBytes(p, ListKeys) + (IF p.truncated THEN 130 ELSE 0)

\* truncateOutput, line 234: the serialized result is over the ceiling
TooLong(p) == Marshalled(p) > maxOutputLen

\* truncateOutput, lines 236-241: the marker and the clipped summary
Summarised(p) ==
    [p EXCEPT !.count = [k \in ListKeys |-> 0], !.truncated = TRUE, !.summary = TRUE]

\* truncateOutput: the results it can return; the range over the map visits
\* the keys in any order and returns at the first long list
truncateOutput(p) ==
    LET long == {k \in ListKeys : p.count[k] > maxListItems} IN
    IF long # {}
      THEN {[p EXCEPT !.count[k] = maxListItems, !.truncated = TRUE, !.field = k,
                      !.original = p.count[k]] : k \in long}
      ELSE {IF TooLong(p) THEN Summarised(p) ELSE p}

\* one call ExecuteTool(ctx, name, args): the tool's schema, the arguments,
\* and what the tool's Execute would return (err is "" on success)
NoCall == [known |-> FALSE, schema |-> NilSchema, args |-> [f \in Fields |-> Absent],
           err |-> "", result |-> CHOOSE p \in Payloads : TRUE]
NoRet == [returned |-> FALSE, executed |-> FALSE, err |-> "", type |-> "",
          result |-> NoCall.result]
PlainPayload ==
    CHOOSE p \in Payloads : p.rest = 100 /\ p.keep = 50 /\ p.strip = 0
                              /\ \A k \in ListKeys : p.count[k] = 0
ToolCalls ==
    {[known |-> TRUE, schema |-> s, args |-> a, err |-> "", result |-> PlainPayload] :
        s \in Schemas \cup {NilSchema}, a \in [Fields -> Values]}
    \cup {[known |-> k, schema |-> NilSchema, args |-> [f \in Fields |-> Absent],
           err |-> e, result |-> p] :
            k \in BOOLEAN, e \in {"", "401"}, p \in Payloads}

\* (variant: Execute runs whatever the validation says)
ValidatesNothing(c) == TRUE
\* ExecuteTool, lines 121-122: the call passes the validation
Validates(c) == c.schema.nil \/ validateArgs(c.schema, c.args) = ""

\* Registry.ExecuteTool, lines 114-146
RegistryExecuteTool ==
    /\ ~ret.returned
    /\ IF ~call.known
         THEN ret' = [NoRet EXCEPT !.returned = TRUE, !.err = "unknown tool"]
       ELSE IF ~Validates(call)
         THEN ret' = [NoRet EXCEPT !.returned = TRUE, !.type = "validation", !.err = ""]
       ELSE IF call.err # ""
         THEN ret' = [NoRet EXCEPT !.returned = TRUE, !.executed = TRUE, !.err = call.err]
       ELSE \E r \in truncateOutput(call.result) :
              ret' = [NoRet EXCEPT !.returned = TRUE, !.executed = TRUE, !.result = r]
    /\ UNCHANGED <<now, linkVars, cancelled, transcript, reported, lockVars, rateVars, call, chat, toolErr, pc, outcome, session, stored, saves,
                   reply, loopVars, obsVars>>

\* ====================================================== ai.Agent.chatCompletion
retryMaxAttempts == 3
retryInitialDelay == 2      \* seconds
retryMaxDelay == 30

\* what one HTTP exchange comes to: http.Do fails ("do"), reading the body
\* fails ("read"), or a response with a status code arrives
Exchange(err, code) == [err |-> err, code |-> code]
StatusCodes == {200, 400, 401, 429, 500, 502, 503, 504}
Exchanges ==
    {Exchange("do", 0), Exchange("read", 200)} \cup {Exchange("", c) : c \in StatusCodes}

\* lines 500-503
retryableStatus(code) == code \in {429, 500, 502, 503}

DoubleDelay(delay) == IF delay * 2 < retryMaxDelay THEN delay * 2 ELSE retryMaxDelay

NoChat == [responses |-> <<>>, attempt |-> 0, delay |-> 0, slept |-> <<>>, result |-> "none"]
ChatCalls ==
    {[NoChat EXCEPT !.responses = r, !.delay = retryInitialDelay] :
        r \in [1..retryMaxAttempts -> Exchanges]}

\* chatCompletion, lines 524-567: one pass of the attempt loop
ChatAttempt ==
    LET x == chat.responses[chat.attempt + 1]
        again == [chat EXCEPT !.attempt = @ + 1, !.slept = Append(@, chat.delay),
                              !.delay = DoubleDelay(@)]
    IN
    /\ chat.result = "none"
    /\ chat.attempt < retryMaxAttempts
    /\ chat.responses # <<>>
    /\ chat' =
          IF x.err = "do"
            THEN IF chat.attempt < retryMaxAttempts - 1
                   THEN again
                   ELSE [chat EXCEPT !.attempt = @ + 1, !.result = "transport error"]
          ELSE IF x.err = "read"
            THEN [chat EXCEPT !.attempt = @ + 1, !.result = "read error"]
          ELSE IF retryableStatus(x.code) /\ chat.attempt < retryMaxAttempts - 1
            THEN again
          ELSE IF x.code # 200
            THEN [chat EXCEPT !.attempt = @ + 1, !.result = "openai: status"]
          ELSE [chat EXCEPT !.attempt = @ + 1, !.result = "ok"]
    /\ UNCHANGED <<now, linkVars, cancelled, transcript, reported, lockVars, rateVars, call, ret, toolErr, pc, outcome,
                   session, stored, saves, reply, loopVars, obsVars>>

\* ============================================================ ai.Agent.Handle
\* A turn carries its role and tool-call ids, not its text: the requests are
\* taken to stay under maxMessageTokenBudget, so the proactive prune of lines
\* 168-174 does not fire, tool arguments are valid JSON, and store.GetHistory
\* succeeds.  chatCompletion is one step, its HTTP retries inside it.
maxToolIterations == 5
doomLoopExactThreshold == 2
doomLoopNameThreshold == 4
maxPruneAttempts == 3
maxConversationTurns == 50
maxHistoryTokens == 3500

MaxCalls == 2           \* tool calls in one model turn
MaxRequests == 6        \* the tool calls the model requests in one run
MaxHist == 5            \* turns of stored history when the run starts
MaxMessages == 3        \* messages of the user the handler is given

Phone == "u1"

\* the registry built by buildReg: the tools and their ReadOnly() answers
ReadOnlyTools == {"get_departments", "get_ticket"}
MutatingTools == {"create_ticket"}
Registered == ReadOnlyTools \cup MutatingTools \cup {"respond_interactive"}

\* Registry.IsReadOnly: an unknown tool is not read-only
IsReadOnly(name) == name \in Registered /\ name \in ReadOnlyTools

\* what the model may ask for: function name and serialized arguments
Sigs ==
    { [name |-> "get_departments", args |-> "{}"],
      [name |-> "get_departments", args |-> "{q:1}"],
      [name |-> "create_ticket", args |-> "{}"],
      [name |-> "no_such_tool", args |-> "{}"],
      [name |-> "respond_interactive", args |-> "{}"] }
\* the requests for get_ticket, the tool whose failures are told apart
TicketSigs ==
    { [name |-> "get_ticket", args |-> "{id:1}"],
      [name |-> "get_ticket", args |-> "{id:2}"] }
ToolNames == {s.name : s \in Sigs \cup TicketSigs}
NoSig == [name |-> "", args |-> ""]

\* the error texts a tool's Execute fails with here, and Registry.Get's
RawErrors == { {"401"}, {"Timeout", "401"} }
UnknownTool == {"unknown tool"}
\* ToolError.Error() of the validation failure of Registry.ExecuteTool: the
\* RawError field, which lines 123-126 of tools.go leave empty
ValidationFailure == {}
TicketErrors ==
    { {"context deadline exceeded"}, {"401"}, {"404"}, {"429"}, {"503"},
      {"initSession"}, {"deve ser"}, {"connection refused"}, ValidationFailure }

\* what one call of Registry.ExecuteTool(name) can come back with
ExecuteTool(name) ==
    IF name = "get_ticket" THEN {{"ok"}} \cup TicketErrors
    ELSE IF name \in Registered THEN {{"ok"}} \cup RawErrors ELSE {UnknownTool}

\* turns and messages: role, the ids of the tool calls an assistant turn
\* carries, the call id a tool turn answers, the bytes estimateTokens counts
\* for it, and the bytes left of it once compressTurnToolResponses has run
SmallTurn == 20         \* bytes of a turn of the agent's run
LargeTurn == 6000       \* bytes of a turn with a long payload
SlimTurn == 150         \* bytes left of a long tool response after compression
Turn(role, calls, id) ==
    [role |-> role, calls |-> calls, id |-> id, size |-> SmallTurn, slim |-> SmallTurn]
\* the tool-result turn of a call: the results of get_ticket are long
ToolTurn(name, id) ==
    IF name = "get_ticket"
      THEN [Turn("tool", <<>>, id) EXCEPT !.size = LargeTurn, !.slim = SlimTurn]
      ELSE Turn("tool", <<>>, id)
Sys == Turn("system", <<>>, 0)
UserTurn == Turn("user", <<>>, 0)

\* histories a run can find in the store
Conversation ==
    << UserTurn, Turn("assistant", <<101>>, 0), Turn("tool", <<>>, 101),
       Turn("assistant", <<>>, 0), UserTurn, Turn("assistant", <<>>, 0) >>
GeminiHistory == << UserTurn, Turn("model", <<>>, 0) >>
Histories ==
    {SubSeq(Conversation, 1, n) : n \in {k \in 0..MaxHist : k <= Len(Conversation)}}
        \cup {GeminiHistory}

RECURSIVE DropLeadingTools(_)
DropLeadingTools(turns) ==
    IF turns # <<>> /\ Head(turns).role = "tool"
      THEN DropLeadingTools(Tail(turns)) ELSE turns

\* toOpenAIMessages: nothing for a Gemini-format history, leading tool turns
\* skipped, one message per remaining turn
pruneKeepRecent == 4
toOpenAIMessages(turns) ==
    IF \E i \in 1..Len(turns) : turns[i].role = "model"
      THEN <<>>
      ELSE LET kept == DropLeadingTools(turns) IN
           [i \in 1..Len(kept) |->
               [kept[i] EXCEPT !.size = IF /\ kept[i].role = "tool"
                                           /\ Len(kept) - i + 1 > pruneKeepRecent
                                          THEN kept[i].slim ELSE kept[i].size]]

messageToTurn(msg) == Turn(msg.role, msg.calls, msg.id)

\* estimateTokens, part_009 lines 173-189: int(float64(total) / 3.5 * 1.1),
\* here in exact arithmetic
RECURSIVE TotalBytes(_)
TotalBytes(turns) ==
    IF turns = <<>> THEN 0 ELSE Head(turns).size + TotalBytes(Tail(turns))
estimateTokens(turns) == (TotalBytes(turns) * 11) \div 35

\* (variant: the cap keeps the oldest turns)
CappedKeepsOldest(turns) ==
    IF Len(turns) > maxConversationTurns
      THEN SubSeq(turns, 1, maxConversationTurns)
      ELSE turns
\* BoltStore.SaveHistory, lines 139-141: the hard cap
Capped(turns) ==
    IF Len(turns) > maxConversationTurns
      THEN SubSeq(turns, Len(turns) - maxConversationTurns + 1, Len(turns))
      ELSE turns

\* lines 144-149: the tool responses of all but the last four turns compressed
compressTurnToolResponses(turn) ==
    IF turn.role = "tool" THEN [turn EXCEPT !.size = turn.slim] ELSE turn
Compressed(turns) ==
    [i \in 1..Len(turns) |->
        IF i <= Len(turns) - 4 THEN compressTurnToolResponses(turns[i]) ELSE turns[i]]

\* (variant: token pruning that stops at one turn)
KeepsPruningToOne(turns) ==
    Len(turns) > 1 /\ estimateTokens(turns) > maxHistoryTokens
\* line 152: the condition of the token-pruning loop
KeepsPruning(turns) ==
    Len(turns) > 2 /\ estimateTokens(turns) > maxHistoryTokens

\* lines 152-154: the oldest turn dropped while the loop condition holds
RECURSIVE TokenPruned(_)
TokenPruned(turns) ==
    IF KeepsPruning(turns) THEN TokenPruned(Tail(turns)) ELSE turns

\* (variant: leading tool turns kept)
KeepLeadingTools(turns) == turns
\* lines 158-160: the leading tool turns dropped
DropOrphans(turns) == DropLeadingTools(turns)

\* BoltStore.SaveHistory: what is written for turns
SaveHistory(turns) ==
    DropOrphans(TokenPruned(Compressed(Capped(turns))))

\* Handle, lines 192-196: allTurns = allTurns[1:], dropCount times, while
\* more than one turn is left
RECURSIVE DropOldest(_, _)
DropOldest(turns, dropCount) ==
    IF dropCount = 0 \/ Len(turns) <= 1
      THEN turns ELSE DropOldest(Tail(turns), dropCount - 1)

\* Handle, lines 186-189
DropCount(attempt, isContextOverflow) ==
    IF isContextOverflow THEN attempt * 2 ELSE attempt

\* estimateMessagesTokens, lines 759-768, in exact arithmetic
maxMessageTokenBudget == 6000
RECURSIVE MessageBytes(_)
MessageBytes(msgs) == IF msgs = <<>> THEN 0 ELSE Head(msgs).size + MessageBytes(Tail(msgs))
estimateMessagesTokens(msgs) == (MessageBytes(msgs) * 11) \div 35

\* pruneMessages, lines 771-783: the first message after the system prompt
\* goes while the request is over budget, then the tool messages left in
\* that place
DropSecond(msgs) == <<Head(msgs)>> \o Tail(Tail(msgs))
\* (variant: the newest message goes first)
RECURSIVE DropNewestOverBudget(_)
DropNewestOverBudget(msgs) ==
    IF estimateMessagesTokens(msgs) > maxMessageTokenBudget /\ Len(msgs) > 2
      THEN DropNewestOverBudget(SubSeq(msgs, 1, Len(msgs) - 1)) ELSE msgs
RECURSIVE DropOverBudget(_)
DropOverBudget(msgs) ==
    IF estimateMessagesTokens(msgs) > maxMessageTokenBudget /\ Len(msgs) > 2
      THEN DropOverBudget(DropSecond(msgs)) ELSE msgs
\* (variant: the tool messages left in second place stay)
KeepOrphanedStart(msgs) == msgs
RECURSIVE FixOrphanedStart(_)
FixOrphanedStart(msgs) ==
    IF Len(msgs) > 1 /\ msgs[2].role = "tool"
      THEN FixOrphanedStart(DropSecond(msgs)) ELSE msgs
pruneMessages(msgs) == FixOrphanedStart(DropOverBudget(msgs))

\* rebuildTurns, lines 786-822: the messages without the system prompt
rebuildTurns(msgs) == SelectSeq(msgs, LAMBDA m : m.role # "system")

\* (variant: a loop that runs one iteration more)
LoopDoneLate(i) == i > maxToolIterations
\* the loop header "for range maxToolIterations", line 167
LoopDone(i) == i >= maxToolIterations

\* the doom-loop test, line 279
\* (variants: each threshold one higher)
DoomTrippedLateExact(exact, byName) ==
    exact > doomLoopExactThreshold + 1 \/ byName > doomLoopNameThreshold
DoomTrippedLateName(exact, byName) ==
    exact > doomLoopExactThreshold \/ byName > doomLoopNameThreshold + 1
DoomTripped(exact, byName) ==
    exact > doomLoopExactThreshold \/ byName > doomLoopNameThreshold

\* the doom-loop checks, lines 269-285, over the calls cs from position i:
\* the counters when the scan stops, and whether it stopped on a doom loop
RECURSIVE DoomScan(_, _, _, _, _)
DoomScan(cs, i, last, cnt, counts) ==
    IF i > Len(cs)
      THEN [trip |-> FALSE, last |-> last, cnt |-> cnt, counts |-> counts]
      ELSE LET cnt2 == IF cs[i] = last THEN cnt + 1 ELSE 1
               counts2 == [counts EXCEPT ![cs[i].name] = @ + 1]
           IN IF DoomTripped(cnt2, counts2[cs[i].name])
                THEN [trip |-> TRUE, last |-> cs[i], cnt |-> cnt2, counts |-> counts2]
                ELSE DoomScan(cs, i + 1, cs[i], cnt2, counts2)

\* the dispatch decision, lines 288-296
\* (variant: one read-only call is enough)
AnyReadOnly(cs) == \E i \in 1..Len(cs) : IsReadOnly(cs[i].name)
AllReadOnly(cs) == \A i \in 1..Len(cs) : IsReadOnly(cs[i].name)
RunsParallel(cs) == AllReadOnly(cs) /\ Len(cs) > 1

\* msg.ToolCalls with the progress of each call: ready, run1 (ExecuteTool in
\* progress), run2 (its retry in progress), done; res is results[i].result;
\* tries is what the calls of ExecuteTool made for it so far came back with
MakeBatch(cs, base, st) ==
    [i \in 1..Len(cs) |->
        [id |-> base + i, name |-> cs[i].name, st |-> st, res |-> "none",
         tries |-> <<>>, at |-> 0]]
\* the calls of a parallel batch that have completed
Finished(b) == Cardinality({i \in 1..Len(b) : b[i].st = "done"})

\* the tool results that are observed: those of get_ticket
Observed(results) == {r \in results : r.name = "get_ticket"}

\* (variant: the error text itself as the message)
ToolResultRaw(o) ==
    IF o = {"ok"} THEN [status |-> "ok", type |-> "", message |-> {}]
    ELSE [status |-> "error", type |-> ClassifyError(o).type, message |-> o]
\* lines 331-336 and 411-416: the result handed to the model for a call
\* whose last execution came back with o
ToolResult(o) ==
    IF o = {"ok"} THEN [status |-> "ok", type |-> "", message |-> {}]
    ELSE [status |-> "error", type |-> ClassifyError(o).type,
          message |-> ClassifyError(o).message]
CallIds(b) == [i \in 1..Len(b) |-> b[i].id]
\* (variant: the results in the order in which the calls completed)
ToolTurnsAsCompleted(b) ==
    [k \in 1..Len(b) |->
        LET i == CHOOSE j \in 1..Len(b) : b[j].at = k IN ToolTurn(b[i].name, b[i].id)]
\* (variant: only the first result of the batch is appended)
ToolTurnsFirstOnly(b) == <<ToolTurn(b[1].name, b[1].id)>>
ToolTurns(b) == [i \in 1..Len(b) |-> ToolTurn(b[i].name, b[i].id)]

\* the requests of one model turn as the model made them: the latest
\* signature, how often it has come in a row, and the longest such run
RECURSIVE Requested(_, _, _, _, _)
Requested(cs, i, last, run, longest) ==
    IF i > Len(cs)
      THEN [last |-> last, run |-> run, longest |-> longest]
      ELSE LET r == IF cs[i] = last THEN run + 1 ELSE 1
           IN Requested(cs, i + 1, cs[i], r, IF r > longest THEN r ELSE longest)
Occurrences(cs, n) == Cardinality({i \in 1..Len(cs) : cs[i].name = n})

NoCounts == [n \in ToolNames |-> 0]

RunNotStarted ==
    /\ call = NoCall /\ ret = NoRet /\ chat = NoChat /\ transcript = <<>> /\ reported = {}
    /\ toolErr = NoClassify
    /\ cancelled = FALSE
    /\ pc = "start" /\ outcome = "none" /\ session = "none"
    /\ saves = 0 /\ messages = <<>>
    /\ iter = 0 /\ pruneAttempt = 0
    /\ lastToolSig = NoSig /\ sameExactCount = 0 /\ toolNameCounts = NoCounts
    /\ batch = <<>> /\ idx = 0 /\ nextId = 0
    /\ reply = "none" /\ clears = 0 /\ firstClear = 0
    /\ modelCalls = 0 /\ streak = 0 /\ reqLast = NoSig /\ reqRun = 0 /\ tripCall = 0
    /\ nameReq = NoCounts /\ dispatched = NoCounts /\ failed = {}
\* the user of the run has linked the account
OneLinkedUser == users = {Phone} /\ inbox = 1 /\ links = {}
AgentInit == RunNotStarted /\ allTurns = <<>> /\ OneLinkedUser
\* Return that forgets the session on the abort paths
ReturnLeaksOnAbort(out, turns, save) ==
    /\ pc' = "done"
    /\ outcome' = out
    /\ session' = IF out \in {"auth_error", "doom loop"} THEN session ELSE "closed"
    /\ stored' = IF save THEN SaveHistory(turns) ELSE stored
    /\ saves' = IF save THEN saves + 1 ELSE saves


\* every return of Handle after InitSession succeeded: the reply, the
\* deferred KillSession, and saveHistory when the path calls it
Return(out, turns, save) ==
    /\ pc' = "done"
    /\ outcome' = out
    /\ session' = "closed"
    /\ stored' = IF save THEN SaveHistory(turns) ELSE stored
    /\ saves' = IF save THEN saves + 1 ELSE saves

\* lines 168-174, the top of iteration i + 1 when there is one: the request
\* and the turns, pruned when the request is over budget
LoopTop(i, msgs, turns) ==
    IF ~LoopDone(i) /\ estimateMessagesTokens(msgs) > maxMessageTokenBudget
      THEN [messages |-> pruneMessages(msgs), turns |-> rebuildTurns(pruneMessages(msgs))]
      ELSE [messages |-> msgs, turns |-> turns]

\* (variant: the fixed reply without the save)
ExhaustsWithoutSave(turns) ==
    /\ pc' = "done"
    /\ outcome' = "exhausted"
    /\ session' = "closed"
    /\ UNCHANGED <<stored, saves>>
\* lines 433-437: the loop is over: saveHistory and the fixed reply, no error
Exhausts(turns) ==
    /\ pc' = "done"
    /\ outcome' = "exhausted"
    /\ session' = "closed"
    /\ stored' = SaveHistory(turns)
    /\ saves' = saves + 1

\* the end of a loop iteration, by continue or by falling through: the next
\* iteration, or after the last one lines 435-436; kept is the store's record
EndIteration(i, turns, kept) ==
    IF LoopDone(i)
      THEN Exhausts(turns)
      ELSE /\ pc' = "model"
           /\ stored' = kept
           /\ UNCHANGED <<outcome, session, saves>>

\* Handle, lines 122-124: the limiter rejects the message
HandleRejects ==
    LET r == allowRequest(counters[Phone], now) IN
    /\ pc = "start"
    /\ Phone \in users
    /\ ~r.allowed
    /\ counters' = [counters EXCEPT ![Phone] = r.bucket]
    /\ pc' = "done"
    /\ outcome' = "throttled"
    /\ UNCHANGED <<now, linkVars, cancelled, toolVars, transcript, reported, lockVars, winStart, winAdmits, lastRun, reply, session, stored,
                   saves, loopVars, obsVars>>

\* Handle, lines 122-134: admitted, history read, InitSession fails
HandleInitSessionFails ==
    LET r == allowRequest(counters[Phone], now) IN
    /\ pc = "start"
    /\ Phone \in users
    /\ r.allowed
    /\ counters' = [counters EXCEPT ![Phone] = r.bucket]
    /\ pc' = "done"
    /\ outcome' = "initSession"
    /\ UNCHANGED <<now, linkVars, cancelled, toolVars, transcript, reported, lockVars, winStart, winAdmits, lastRun, reply, session, stored,
                   saves, loopVars, obsVars>>

\* Handle, lines 122-165: admitted, history read, session opened, the first
\* request assembled
HandleBegins ==
    LET r == allowRequest(counters[Phone], now) IN
    /\ pc = "start"
    /\ Phone \in users
    /\ r.allowed
    /\ counters' = [counters EXCEPT ![Phone] = r.bucket]
    /\ session' = "open"
    /\ messages' = LoopTop(0, <<Sys>> \o toOpenAIMessages(stored) \o <<UserTurn>>,
                           stored \o <<UserTurn>>).messages
    /\ allTurns' = LoopTop(0, <<Sys>> \o toOpenAIMessages(stored) \o <<UserTurn>>,
                           stored \o <<UserTurn>>).turns
    /\ pc' = "model"
    /\ transcript' = stored \o <<UserTurn>>
    /\ UNCHANGED <<now, linkVars, cancelled, toolVars, reported, lockVars, winStart, winAdmits, lastRun, reply, outcome, stored, saves,
                   iter, pruneAttempt, lastToolSig, sameExactCount, toolNameCounts,
                   batch, idx, nextId, obsVars>>

\* (variant: the last resort one attempt early)
PrunesIncrementallyTwice(attempt) == attempt < maxPruneAttempts - 1
\* line 183: an incremental attempt is left
PrunesIncrementally(attempt) == attempt < maxPruneAttempts

\* lines 176-216: chatCompletion fails with a context-length error or a 400
ModelContextError(isContextOverflow) ==
    /\ pc = "model" /\ ~LoopDone(iter)
    /\ ~cancelled
    /\ iter' = iter + 1
    /\ modelCalls' = modelCalls + 1
    /\ streak' = streak + 1
    /\ IF PrunesIncrementally(pruneAttempt)
         THEN LET turns == DropOldest(allTurns,
                               DropCount(pruneAttempt + 1, isContextOverflow))
                  top == LoopTop(iter + 1, <<Sys>> \o toOpenAIMessages(turns), turns) IN
              /\ pruneAttempt' = pruneAttempt + 1
              /\ allTurns' = top.turns
              /\ messages' = top.messages
              /\ EndIteration(iter + 1, top.turns, stored)
              /\ UNCHANGED <<clears, firstClear>>
         ELSE /\ pruneAttempt' = pruneAttempt
              /\ clears' = clears + 1
              /\ firstClear' = IF firstClear = 0 THEN modelCalls + 1 ELSE firstClear
              /\ allTurns' = <<UserTurn>>
              /\ messages' = <<Sys, UserTurn>>
              /\ EndIteration(iter + 1, <<UserTurn>>, <<>>)
    /\ UNCHANGED <<now, linkVars, cancelled, toolVars, transcript, reported, lockVars, rateVars, reply, lastToolSig, sameExactCount, toolNameCounts,
                   batch, idx, nextId, reqLast, reqRun, tripCall, nameReq, dispatched, failed>>

\* the errors of chatCompletion that are neither a context-length error nor
\* a 400, and Handle's wrapping of them, line 217
ChatErrors == {"openai: status 500", "context deadline exceeded"}
\* the error of http.Do once ctx is cancelled, as chatCompletion and the
\* tools' HTTP clients return it
CtxCanceled == "context canceled"
ChatCompletionError(err) ==
    IF err = "openai: status 500"
      THEN "chatCompletion: openai: status 500"
    ELSE IF err = CtxCanceled
      THEN "chatCompletion: context canceled"
      ELSE "chatCompletion: context deadline exceeded"

\* lines 176-217: chatCompletion fails with any other error
ModelFails(err) ==
    /\ pc = "model" /\ ~LoopDone(iter)
    /\ cancelled <=> err = CtxCanceled
    /\ iter' = iter + 1
    /\ modelCalls' = modelCalls + 1
    /\ streak' = streak
    /\ Return(ChatCompletionError(err), allTurns, FALSE)
    /\ UNCHANGED <<now, linkVars, cancelled, toolVars, transcript, reported, lockVars, rateVars, reply, messages, allTurns, pruneAttempt,
                   lastToolSig, sameExactCount, toolNameCounts, batch, idx, nextId,
                   reqLast, reqRun, tripCall, clears, firstClear, nameReq, dispatched, failed>>

\* lines 219-229: the response has no choices
ModelNoChoices ==
    /\ pc = "model" /\ ~LoopDone(iter)
    /\ ~cancelled
    /\ iter' = iter + 1
    /\ modelCalls' = modelCalls + 1
    /\ streak' = 0
    /\ pruneAttempt' = 0
    /\ Return("no choices", allTurns, FALSE)
    /\ UNCHANGED <<now, linkVars, cancelled, toolVars, transcript, reported, lockVars, rateVars, reply, messages, allTurns,
                   lastToolSig, sameExactCount, toolNameCounts, batch, idx, nextId,
                   reqLast, reqRun, tripCall, clears, firstClear, nameReq, dispatched, failed>>

\* lines 219-242: the response carries no tool call: the final answer
ModelAnswers ==
    LET msg == Turn("assistant", <<>>, 0)
        turns == Append(allTurns, messageToTurn(msg)) IN
    /\ pc = "model" /\ ~LoopDone(iter)
    /\ ~cancelled
    /\ iter' = iter + 1
    /\ modelCalls' = modelCalls + 1
    /\ streak' = 0
    /\ pruneAttempt' = 0
    /\ allTurns' = turns
    /\ messages' = Append(messages, msg)
    /\ Return("final", turns, TRUE)
    /\ transcript' = Append(transcript, messageToTurn(msg))
    /\ reported' = {}
    /\ UNCHANGED <<now, linkVars, cancelled, toolVars, lockVars, rateVars, reply,
                   lastToolSig, sameExactCount, toolNameCounts, batch, idx, nextId,
                   reqLast, reqRun, tripCall, clears, firstClear, nameReq, dispatched, failed>>

\* (variant: no call is taken for the interactive reply)
NoInteractiveCalls(cs) == {}
\* lines 244-246: the respond_interactive calls of the response
InteractiveCalls(cs) == {i \in 1..Len(cs) : cs[i].name = "respond_interactive"}

\* lines 219-296: the response requests the tool calls cs: the interactive
\* reply, the doom-loop abort, or the dispatch of the batch
ModelRequestsTools(cs) ==
    LET b == MakeBatch(cs, nextId, "ready")
        msg == Turn("assistant", CallIds(b), 0)
        turns == Append(allTurns, messageToTurn(msg))
        ri == InteractiveCalls(cs)
        first == CHOOSE i \in ri : \A j \in ri : i <= j
        scan == DoomScan(cs, 1, lastToolSig, sameExactCount, toolNameCounts)
        req == Requested(cs, 1, reqLast, reqRun, 0)
    IN
    /\ pc = "model" /\ ~LoopDone(iter)
    /\ ~cancelled
    /\ nextId + Len(cs) <= MaxRequests
    /\ iter' = iter + 1
    /\ modelCalls' = modelCalls + 1
    /\ streak' = 0
    /\ pruneAttempt' = 0
    /\ nextId' = nextId + Len(cs)
    /\ messages' = Append(messages, msg)
    /\ reqLast' = req.last
    /\ reqRun' = req.run
    /\ tripCall' = IF tripCall = 0 /\ req.longest > doomLoopExactThreshold
                      THEN modelCalls + 1 ELSE tripCall
    /\ nameReq' = [n \in ToolNames |-> nameReq[n] + Occurrences(cs, n)]
    /\ failed' = {}
    /\ IF ri # {}
         THEN /\ allTurns' = Append(turns, Turn("tool", <<>>, b[first].id))
              /\ Return("interactive", Append(turns, Turn("tool", <<>>, b[first].id)), TRUE)
              /\ batch' = b
              /\ UNCHANGED <<lastToolSig, sameExactCount, toolNameCounts, idx, dispatched>>
         ELSE /\ allTurns' = turns
              /\ lastToolSig' = scan.last
              /\ sameExactCount' = scan.cnt
              /\ toolNameCounts' = scan.counts
              /\ IF scan.trip
                   THEN /\ Return("doom loop", turns, TRUE)
                        /\ batch' = b
                        /\ UNCHANGED <<idx, dispatched>>
                   ELSE IF RunsParallel(cs)
                     THEN /\ pc' = "par"
                          /\ batch' = MakeBatch(cs, nextId, "run1")
                          /\ dispatched' = [n \in ToolNames |->
                                               dispatched[n] + Occurrences(cs, n)]
                          /\ UNCHANGED <<idx, outcome, session, stored, saves>>
                     ELSE /\ pc' = "seq"
                          /\ idx' = 1
                          /\ batch' = [b EXCEPT ![1].st = "run1"]
                          /\ dispatched' = [dispatched EXCEPT ![cs[1].name] = @ + 1]
                          /\ UNCHANGED <<outcome, session, stored, saves>>
    /\ transcript' = Append(transcript, messageToTurn(msg))
                        \o (IF ri # {} THEN <<Turn("tool", <<>>, b[first].id)>> ELSE <<>>)
    /\ reported' = {}
    /\ UNCHANGED <<now, linkVars, cancelled, toolVars, lockVars, rateVars, reply, clears, firstClear>>

\* (variant: no failure kind aborts the run)
AbortsNothing(type) == FALSE
\* lines 407 and 346: the failure kind that aborts the run
AbortsRun(type) == type = "auth_error"

\* (variant: every first failure is retried)
RetriesAnyFailure(te, st) == st = "run1"
\* lines 398 and 323: a first failure the classifier marks retryable is retried
Retries(te, st) == te.retryable /\ st = "run1"

\* lines 419-431: the result of call idx is appended; the next call of the
\* batch starts, or the iteration ends
SeqAppend ==
    LET result == ToolTurn(batch[idx].name, batch[idx].id)
        turns == Append(allTurns, result)
        top == LoopTop(iter, Append(messages, result), turns) IN
    /\ transcript' = Append(transcript, result)
    /\ IF idx = Len(batch)
         THEN /\ batch' = <<>>
              /\ idx' = 0
              /\ messages' = top.messages
              /\ allTurns' = top.turns
              /\ EndIteration(iter, top.turns, stored)
              /\ UNCHANGED dispatched
         ELSE /\ messages' = Append(messages, result)
              /\ allTurns' = turns
              /\ batch' = [batch EXCEPT ![idx].st = "done", ![idx + 1].st = "run1"]
              /\ idx' = idx + 1
              /\ dispatched' = [dispatched EXCEPT ![batch[idx + 1].name] = @ + 1]
              /\ UNCHANGED <<pc, outcome, session, stored, saves>>

\* lines 370-431, sequential execution: ExecuteTool for call idx returns o
SeqToolReturns(o) ==
    LET done == [id |-> batch[idx].id, name |-> batch[idx].name,
                 tries |-> Append(batch[idx].tries, o), result |-> ToolResult(o),
                 at |-> idx] IN
    /\ pc = "seq"
    /\ o \in ExecuteTool(batch[idx].name) \cup (IF cancelled THEN {{CtxCanceled}} ELSE {})
    /\ IF o = {"ok"}
         THEN /\ SeqAppend
              /\ failed' = (IF idx = Len(batch) THEN {} ELSE failed)
              /\ reported' = reported \cup Observed({done})
         ELSE LET te == ClassifyError(o) IN
              IF Retries(te, batch[idx].st)
                THEN /\ batch' = [batch EXCEPT ![idx].st = "run2", ![idx].tries = Append(@, o)]
                     /\ UNCHANGED <<pc, outcome, session, stored, saves, messages,
                                    allTurns, transcript, reported, idx, dispatched, failed>>
              ELSE IF AbortsRun(te.type)
                THEN /\ batch' = [batch EXCEPT ![idx].st = "done", ![idx].tries = Append(@, o)]
                     /\ failed' = failed \cup {[id |-> batch[idx].id, raw |-> o]}
                     /\ Return("auth_error", allTurns, TRUE)
                     /\ UNCHANGED <<messages, allTurns, transcript, reported, idx, dispatched>>
              ELSE /\ SeqAppend
                   /\ failed' = (IF idx = Len(batch) THEN {}
                                  ELSE failed \cup {[id |-> batch[idx].id, raw |-> o]})
                   /\ reported' = reported \cup Observed({done})
    /\ UNCHANGED <<now, linkVars, cancelled, toolVars, lockVars, rateVars, reply, iter, pruneAttempt, lastToolSig,
                   sameExactCount, toolNameCounts, nextId,
                   modelCalls, streak, reqLast, reqRun, tripCall, clears, firstClear, nameReq>>

\* lines 305-339, parallel execution: ExecuteTool of goroutine i returns o
ParToolReturns(i, o) ==
    /\ pc = "par"
    /\ i \in 1..Len(batch)
    /\ batch[i].st \in {"run1", "run2"}
    /\ o \in ExecuteTool(batch[i].name) \cup (IF cancelled THEN {{CtxCanceled}} ELSE {})
    /\ IF o = {"ok"}
         THEN /\ batch' = [batch EXCEPT ![i].st = "done", ![i].res = "ok",
                                         ![i].tries = Append(@, o), ![i].at = Finished(batch) + 1]
              /\ UNCHANGED failed
         ELSE LET te == ClassifyError(o) IN
              IF Retries(te, batch[i].st)
                THEN /\ batch' = [batch EXCEPT ![i].st = "run2", ![i].tries = Append(@, o)]
                     /\ UNCHANGED failed
                ELSE /\ batch' = [batch EXCEPT ![i].st = "done", ![i].res = te.type,
                                               ![i].tries = Append(@, o), ![i].at = Finished(batch) + 1]
                     /\ failed' = failed \cup {[id |-> batch[i].id, raw |-> o]}
    /\ UNCHANGED <<now, linkVars, cancelled, toolVars, transcript, reported, lockVars, rateVars, reply, pc, outcome, session, stored, saves,
                   messages, allTurns, iter, pruneAttempt, lastToolSig,
                   sameExactCount, toolNameCounts, idx, nextId,
                   modelCalls, streak, reqLast, reqRun, tripCall, clears, firstClear, nameReq, dispatched>>

\* lines 341-367: wg.Wait() returns; an auth failure aborts the run, else
\* the results are appended in the order of the calls
ParJoin ==
    LET turns == allTurns \o ToolTurns(batch)
        top == LoopTop(iter, messages \o ToolTurns(batch), turns) IN
    /\ pc = "par"
    /\ \A i \in 1..Len(batch) : batch[i].st = "done"
    /\ IF \E i \in 1..Len(batch) : AbortsRun(batch[i].res)
         THEN /\ Return("auth_error", allTurns, TRUE)
              /\ UNCHANGED <<messages, allTurns, batch, failed>>
         ELSE /\ messages' = top.messages
              /\ allTurns' = top.turns
              /\ batch' = <<>>
              /\ failed' = {}
              /\ EndIteration(iter, top.turns, stored)
    /\ transcript' = IF \E i \in 1..Len(batch) : AbortsRun(batch[i].res)
                       THEN transcript ELSE transcript \o ToolTurns(batch)
    /\ reported' = IF \E i \in 1..Len(batch) : AbortsRun(batch[i].res)
                     THEN reported
                     ELSE Observed({[id |-> batch[i].id, name |-> batch[i].name,
                                     tries |-> batch[i].tries,
                                     result |-> ToolResult(batch[i].tries[Len(batch[i].tries)]),
                                     at |-> batch[i].at] :
                                       i \in 1..Len(batch)})
    /\ UNCHANGED <<now, linkVars, cancelled, toolVars, lockVars, rateVars, reply, iter, pruneAttempt, lastToolSig,
                   sameExactCount, toolNameCounts, idx, nextId,
                   modelCalls, streak, reqLast, reqRun, tripCall, clears, firstClear, nameReq, dispatched>>

\* the caller cancels ctx while the run is at a model call or a tool call
Cancel ==
    /\ pc \in {"model", "seq", "par"}
    /\ ~cancelled
    /\ cancelled' = TRUE
    /\ UNCHANGED <<now, linkVars, toolVars, transcript, reported, lockVars, rateVars, pc, outcome,
                   session, stored, saves, reply, loopVars, obsVars>>

\* Handler.handleCommand, lines 81-97: the errors Handle returns, and
\* strings.Contains(err.Error(), sub) for them
HandleErrors ==
    {"auth_error", "initSession"}
        \cup {ChatCompletionError(err) : err \in ChatErrors \cup {CtxCanceled}}
ErrContains(errMsg, sub) ==
    \/ errMsg = sub
    \/ <<errMsg, sub>> \in {<<"chatCompletion: context deadline exceeded", "context">>,
                            <<"chatCompletion: context canceled", "context">>}

\* Handler.handleCommand, lines 73-110: what the user is sent for the outcome
\* of Handle, and whether the handler clears the user's history first
\* (variant: the auth failure is answered like any other error)
handleCommandKeepsUser(out) ==
    IF out \notin HandleErrors
      THEN [text |-> out, clear |-> FALSE, relink |-> FALSE]
      ELSE [text |-> "generic error", clear |-> FALSE, relink |-> FALSE]
handleCommand(out) ==
    IF out \notin HandleErrors
      THEN [text |-> out, clear |-> FALSE, relink |-> FALSE]
    ELSE IF ErrContains(out, "auth_error")
      THEN [text |-> "session expired", clear |-> FALSE, relink |-> TRUE]
    ELSE IF ErrContains(out, "initSession")
      THEN [text |-> "maintenance", clear |-> FALSE, relink |-> FALSE]
    ELSE IF ErrContains(out, "context")
      THEN [text |-> "conversation reset", clear |-> TRUE, relink |-> FALSE]
    ELSE [text |-> "generic error", clear |-> FALSE, relink |-> FALSE]

\* Handler.handleCommand, lines 73-110: Handle has returned; the reply is sent
HandleCommandReplies ==
    /\ pc = "done"
    /\ pc' = "replied"
    /\ reply' = handleCommand(outcome).text
    /\ stored' = IF handleCommand(outcome).clear THEN <<>> ELSE stored
    /\ users' = IF handleCommand(outcome).relink THEN users \ {Phone} ELSE users
    /\ links' = IF handleCommand(outcome).relink THEN links \cup {inbox} ELSE links
    /\ UNCHANGED <<now, inbox, cancelled, toolVars, transcript, reported, lockVars, rateVars, outcome, session, saves, loopVars, obsVars>>

\* Handler.HandleMessage, lines 30-39: GetUser finds no record; the
\* verification link is sent and handleCommand is not called
HandleMessageUnlinked ==
    /\ pc = "start"
    /\ Phone \notin users
    /\ pc' = "replied"
    /\ reply' = "verification link"
    /\ links' = links \cup {inbox}
    /\ UNCHANGED <<now, users, inbox, cancelled, toolVars, transcript, reported, lockVars, rateVars,
                   outcome, session, stored, saves, loopVars, obsVars>>

\* auth.Handler.HandleVerifySubmit: the user submits the form behind the
\* link and SaveUser writes the record; an HTTP request, at any time
HandleVerifySubmit ==
    /\ Phone \notin users
    /\ users' = users \cup {Phone}
    /\ UNCHANGED <<now, inbox, links, cancelled, toolVars, transcript, reported, lockVars, rateVars,
                   pc, outcome, session, stored, saves, reply, loopVars, obsVars>>

\* the webhook delivers the user's next message: HandleMessage is called
\* again, with the store as the last message left it
NextMessage ==
    /\ pc = "replied"
    /\ inbox < MaxMessages
    /\ inbox' = inbox + 1
    /\ pc' = "start" /\ outcome' = "none" /\ session' = "none" /\ reply' = "none"
    /\ saves' = 0 /\ messages' = <<>> /\ allTurns' = <<>>
    /\ iter' = 0 /\ pruneAttempt' = 0
    /\ lastToolSig' = NoSig /\ sameExactCount' = 0 /\ toolNameCounts' = NoCounts
    /\ batch' = <<>> /\ idx' = 0 /\ nextId' = 0
    /\ clears' = 0 /\ firstClear' = 0
    /\ modelCalls' = 0 /\ streak' = 0 /\ reqLast' = NoSig /\ reqRun' = 0 /\ tripCall' = 0
    /\ nameReq' = NoCounts /\ dispatched' = NoCounts /\ failed' = {}
    /\ transcript' = <<>> /\ reported' = {}
    /\ UNCHANGED <<now, users, links, cancelled, toolVars, lockVars, rateVars, stored>>

\* the tool calls one model turn can carry
CallSeqs == UNION {[1..n -> Sigs] : n \in 1..MaxCalls}

\* ========================================================== specifications
NoRunYet == AgentInit /\ stored = <<>>

LockInit == now = 0 /\ NewManager /\ NewAgent /\ NoRunYet
LockNext ==
    \/ \E p \in Procs, u \in Users : WithLockLookup(p, u)
    \/ \E p \in Procs : WithLockAcquire(p)
    \/ \E p \in Procs : WithLockTouch(p)
    \/ \E p \in Procs, err \in FnResults : WithLockReturn(p, err)
    \/ Cleanup(lockMaxAge)
    \/ Tick
SpecLock == LockInit /\ [][LockNext]_vars

\* the session manager with the sweep as a goroutine of its own
RaceNext ==
    \/ \E p \in Procs, u \in Users : WithLockLookup(p, u)
    \/ \E p \in Procs : WithLockAcquire(p)
    \/ \E p \in Procs : WithLockTouch(p)
    \/ \E p \in Procs, err \in FnResults : WithLockReturn(p, err)
    \/ CleanupLock
    \/ CleanupSweep(lockMaxAge)
    \/ Tick
SpecRace == LockInit /\ [][RaceNext]_vars

RateInit == now = 0 /\ NewManager /\ NewAgent /\ NoRunYet
RateNext ==
    \/ \E u \in Users : HandleThrottled(u)
    \/ \E u \in Users : HandleAdmitted(u)
    \/ Tick
SpecRate == RateInit /\ [][RateNext]_vars

\* one run of Handle for Phone; the limiter's bucket of Phone is absent or full
FullBucket == [ok |-> TRUE, count |-> rateLimitMax, window |-> 0]
Init ==
    /\ now = 0
    /\ NewManager
    /\ winStart = [u \in Users |-> 0 - 1]
    /\ winAdmits = [u \in Users |-> 0]
    /\ lastRun = [u \in Users |-> NoRun]
    /\ counters \in {[u \in Users |-> NoBucket], [u \in Users |-> FullBucket]}
    /\ AgentInit
    /\ stored = <<>>
Next ==
    \/ HandleRejects
    \/ HandleInitSessionFails
    \/ HandleBegins
    \/ \E isContextOverflow \in BOOLEAN : ModelContextError(isContextOverflow)
    \/ \E err \in ChatErrors : ModelFails(err)
    \/ ModelNoChoices
    \/ ModelAnswers
    \/ \E cs \in CallSeqs : ModelRequestsTools(cs)
    \/ \E o \in {{"ok"}, UnknownTool} \cup RawErrors : SeqToolReturns(o)
    \/ \E i \in 1..MaxCalls, o \in {{"ok"}} \cup RawErrors : ParToolReturns(i, o)
    \/ ParJoin
Spec == Init /\ [][Next]_vars

\* one run of Handle in which the model requests no tool, over the histories
\* the store can hold
RecoveryInit ==
    /\ now = 0
    /\ NewManager
    /\ NewAgent
    /\ AgentInit
    /\ stored \in Histories
RecoveryNext ==
    \/ HandleInitSessionFails
    \/ HandleBegins
    \/ \E isContextOverflow \in BOOLEAN : ModelContextError(isContextOverflow)
    \/ \E err \in ChatErrors : ModelFails(err)
    \/ ModelNoChoices
    \/ ModelAnswers
    \/ HandleCommandReplies
SpecRecovery == RecoveryInit /\ [][RecoveryNext]_vars

\* BoltStore.SaveHistory applied once to a turn sequence: the turns follow a
\* repeating pattern of roles and of payload sizes
MaxOver == 2            \* turns beyond maxConversationTurns
MaxPeriod == 2          \* length of the repeating patterns
Roles == {"user", "assistant", "tool"}
Patterns(S) == UNION {[1..n -> S] : n \in 1..MaxPeriod}
Cyclic(pattern, i) == pattern[((i - 1) % Len(pattern)) + 1]
StoredTurn(role, size, compressible) ==
    [role |-> role, calls |-> <<>>, id |-> 0, size |-> size,
     slim |-> IF compressible /\ size > SlimTurn THEN SlimTurn ELSE size]
StoreInputs ==
    { [i \in 1..n |-> StoredTurn(Cyclic(roles, i), Cyclic(sizes, i), compressible)] :
        n \in 0..(maxConversationTurns + MaxOver),
        roles \in Patterns(Roles),
        sizes \in Patterns({SmallTurn, LargeTurn}),
        compressible \in BOOLEAN }
StoreInit ==
    /\ now = 0
    /\ NewManager
    /\ NewAgent
    /\ RunNotStarted
    /\ OneLinkedUser
    /\ stored = <<>>
    /\ allTurns \in StoreInputs
\* Agent.saveHistory(phone, allTurns), lines 590-594
saveHistory ==
    /\ saves = 0
    /\ saves' = 1
    /\ stored' = SaveHistory(allTurns)
    /\ UNCHANGED <<now, linkVars, cancelled, toolVars, transcript, reported, lockVars, rateVars, pc, outcome, session, reply, loopVars, obsVars>>
SpecStore == StoreInit /\ [][saveHistory]_vars

\* one run of Handle in which the model asks for get_ticket, alone, twice in
\* parallel, or before create_ticket
MaxTicketRounds == 2
TicketCalls ==
    LET t == [name |-> "get_ticket", args |-> "{id:1}"]
        u == [name |-> "get_ticket", args |-> "{id:2}"] IN
    {<<t>>, <<t, u>>, <<t, [name |-> "create_ticket", args |-> "{}"]>>}
CallInit == Init /\ counters[Phone] = NoBucket
CallNext ==
    \/ HandleBegins
    \/ ModelAnswers
    \/ \E isContextOverflow \in BOOLEAN : ModelContextError(isContextOverflow)
    \/ \E cs \in TicketCalls : modelCalls < MaxTicketRounds /\ ModelRequestsTools(cs)
    \/ \E o \in {{"ok"}} \cup RawErrors \cup TicketErrors : SeqToolReturns(o)
    \/ \E i \in 1..MaxCalls, o \in {{"ok"}} \cup TicketErrors : ParToolReturns(i, o)
    \/ ParJoin
    \/ HandleCommandReplies
SpecCall == CallInit /\ [][CallNext]_vars

\* one run of Handle whose ctx the caller may cancel
CancelInit == Init /\ counters[Phone] = NoBucket
CancelNext ==
    \/ HandleBegins
    \/ ModelFails(CtxCanceled)
    \/ ModelAnswers
    \/ \E cs \in CallSeqs : ModelRequestsTools(cs)
    \/ \E o \in {{"ok"}, UnknownTool, {CtxCanceled}} \cup RawErrors : SeqToolReturns(o)
    \/ \E i \in 1..MaxCalls, o \in {{"ok"}, {CtxCanceled}} \cup RawErrors : ParToolReturns(i, o)
    \/ ParJoin
    \/ Cancel
SpecCancel == CancelInit /\ [][CancelNext]_vars

\* the messages of one user, linked or not, one after the other
LinkCalls == {<<[name |-> "get_departments", args |-> "{}"]>>}
LinkInit ==
    /\ now = 0
    /\ NewManager
    /\ NewAgent
    /\ RunNotStarted
    /\ allTurns = <<>> /\ stored = <<>>
    /\ users \in SUBSET {Phone} /\ inbox = 1 /\ links = {}
LinkNext ==
    \/ HandleMessageUnlinked
    \/ HandleVerifySubmit
    \/ HandleInitSessionFails
    \/ HandleBegins
    \/ ModelAnswers
    \/ \E cs \in LinkCalls : modelCalls < 1 /\ ModelRequestsTools(cs)
    \/ \E o \in {{"ok"}} \cup RawErrors : SeqToolReturns(o)
    \/ HandleCommandReplies
    \/ NextMessage
SpecLink == LinkInit /\ [][LinkNext]_vars

\* one call of ClassifyError
Classify ==
    /\ toolErr.te = NoToolError
    /\ toolErr' = [toolErr EXCEPT !.te = ClassifyError(toolErr.raw)]
    /\ UNCHANGED <<now, linkVars, cancelled, call, ret, chat, transcript, reported, lockVars,
                   rateVars, pc, outcome, session, stored, saves, reply, loopVars, obsVars>>
ClassifyInit ==
    /\ now = 0
    /\ NewManager
    /\ NewAgent
    /\ pc = "start" /\ outcome = "none" /\ session = "none"
    /\ saves = 0 /\ messages = <<>> /\ allTurns = <<>> /\ stored = <<>>
    /\ iter = 0 /\ pruneAttempt = 0
    /\ lastToolSig = NoSig /\ sameExactCount = 0 /\ toolNameCounts = NoCounts
    /\ batch = <<>> /\ idx = 0 /\ nextId = 0
    /\ reply = "none" /\ clears = 0 /\ firstClear = 0
    /\ modelCalls = 0 /\ streak = 0 /\ reqLast = NoSig /\ reqRun = 0 /\ tripCall = 0
    /\ nameReq = NoCounts /\ dispatched = NoCounts /\ failed = {}
    /\ call = NoCall /\ ret = NoRet /\ chat = NoChat /\ transcript = <<>> /\ reported = {}
    /\ cancelled = FALSE
    /\ OneLinkedUser
    /\ toolErr \in {[raw |-> r, te |-> NoToolError] : r \in ErrorTexts}
SpecClassify == ClassifyInit /\ [][Classify]_vars

\* one call of Agent.chatCompletion
ChatInit ==
    /\ now = 0
    /\ NewManager
    /\ NewAgent
    /\ pc = "start" /\ outcome = "none" /\ session = "none"
    /\ saves = 0 /\ messages = <<>> /\ allTurns = <<>> /\ stored = <<>>
    /\ iter = 0 /\ pruneAttempt = 0
    /\ lastToolSig = NoSig /\ sameExactCount = 0 /\ toolNameCounts = NoCounts
    /\ batch = <<>> /\ idx = 0 /\ nextId = 0
    /\ reply = "none" /\ clears = 0 /\ firstClear = 0
    /\ modelCalls = 0 /\ streak = 0 /\ reqLast = NoSig /\ reqRun = 0 /\ tripCall = 0
    /\ nameReq = NoCounts /\ dispatched = NoCounts /\ failed = {}
    /\ call = NoCall /\ ret = NoRet /\ chat \in ChatCalls /\ transcript = <<>> /\ reported = {}
    /\ toolErr = NoClassify
    /\ cancelled = FALSE
    /\ OneLinkedUser
SpecChat == ChatInit /\ [][ChatAttempt]_vars

\* one call of Registry.ExecuteTool
ToolInit ==
    /\ now = 0
    /\ NewManager
    /\ NewAgent
    /\ pc = "start" /\ outcome = "none" /\ session = "none"
    /\ saves = 0 /\ messages = <<>> /\ allTurns = <<>> /\ stored = <<>>
    /\ iter = 0 /\ pruneAttempt = 0
    /\ lastToolSig = NoSig /\ sameExactCount = 0 /\ toolNameCounts = NoCounts
    /\ batch = <<>> /\ idx = 0 /\ nextId = 0
    /\ reply = "none" /\ clears = 0 /\ firstClear = 0
    /\ modelCalls = 0 /\ streak = 0 /\ reqLast = NoSig /\ reqRun = 0 /\ tripCall = 0
    /\ nameReq = NoCounts /\ dispatched = NoCounts /\ failed = {}
    /\ call \in ToolCalls /\ ret = NoRet /\ chat = NoChat /\ transcript = <<>> /\ reported = {}
    /\ toolErr = NoClassify
    /\ cancelled = FALSE
    /\ OneLinkedUser
SpecTool == ToolInit /\ [][RegistryExecuteTool]_vars

\* ================================================================ claims

\* C1: for every user, at most one fn passed to WithLock is executing at any
\* time, whatever the interleaving of WithLock calls and Cleanup sweeps.
InFn(u) == {p \in Procs : wpc[p] = "fn" /\ wuser[p] = u}
C1_OneRunPerUser == \A u \in Users : Cardinality(InFn(u)) <= 1

\* C2: Cleanup never removes a user's entry from the lock table while that
\* lock is held by a running WithLock call.
C2_HeldLockNeverRemoved ==
    [][\A u \in Users :
          (mutexes[u] # 0 /\ lockHeld[mutexes[u]] # 0) => mutexes'[u] = mutexes[u]]_vars

\* C3: in one rate-limit window (counted from the first admitted message of
\* the window) at most rateLimitMax messages of a user are admitted, and a
\* rejected message gets the throttling reply without any call to the
\* history store, the helpdesk session or the model.
C3_RateLimit ==
    \A u \in Users :
        /\ winAdmits[u] <= rateLimitMax
        /\ (counters[u].ok /\ ~WindowExpired(counters[u], now) /\ winAdmits[u] = rateLimitMax)
              => ~allowRequest(counters[u], now).allowed
        /\ lastRun[u].resp = "throttled"
              => ~lastRun[u].history /\ ~lastRun[u].session /\ ~lastRun[u].model
C3_Witness ==
    \E u \in Users : lastRun[u].resp = "throttled" /\ winAdmits[u] = rateLimitMax

\* C4: a run of Handle makes at most maxToolIterations calls to the model,
\* the calls retried by context-overflow recovery included, whatever the
\* model answers and the tools return: every model call uses up one
\* iteration, and the run never waits for the model once the iterations are
\* used up.
C4_BoundedModelCalls ==
    /\ modelCalls <= maxToolIterations
    /\ iter = modelCalls
    /\ pc = "model" => modelCalls < maxToolIterations
C4_Witness ==
    /\ pc = "done" /\ outcome = "exhausted"
    /\ modelCalls = maxToolIterations /\ pruneAttempt > 0 /\ nextId > 0

\* the calls of the latest model turn
NotExecuted == \A i \in 1..Len(batch) : batch[i].st = "ready"
HasInteractive == \E i \in 1..Len(batch) : batch[i].name = "respond_interactive"
EndsBeforeDispatch(out) ==
    pc = "done" /\ batch # <<>> /\ NotExecuted /\ outcome = out

\* C5 (as stated): once the model has requested the same tool with the same
\* arguments three times in a row, the run has ended with the doom-loop
\* message at that model call and executed no call of that model turn.
C5_Original ==
    tripCall > 0 => modelCalls = tripCall /\ EndsBeforeDispatch("doom loop")
\* C5 (amended): the same, except that a turn which also carries a
\* respond_interactive call ends the run with the interactive reply instead
\* of the doom-loop message; in both cases no call of the turn is executed
\* and no further model call is made.
C5_ExactDoomLoop ==
    tripCall > 0 =>
        /\ modelCalls = tripCall
        /\ EndsBeforeDispatch(IF HasInteractive THEN "interactive" ELSE "doom loop")
C5_Witness ==
    /\ tripCall > 0 /\ outcome = "doom loop"
    /\ sameExactCount > doomLoopExactThreshold /\ Len(batch) = 2

\* C6 (as stated): no tool name is dispatched more than
\* doomLoopNameThreshold times in a run, and once the requests for one name
\* exceed the threshold the run has ended with the doom-loop message before
\* any call of that model turn executed.
OverRequested == \E n \in ToolNames : nameReq[n] > doomLoopNameThreshold
C6_Original ==
    /\ \A n \in ToolNames : dispatched[n] <= doomLoopNameThreshold
    /\ OverRequested => EndsBeforeDispatch("doom loop")
\* C6 (amended): the same, except that a turn which also carries a
\* respond_interactive call ends the run with the interactive reply instead
\* of the doom-loop message.
C6_NameDoomLoop ==
    /\ \A n \in ToolNames : dispatched[n] <= doomLoopNameThreshold
    /\ OverRequested =>
          EndsBeforeDispatch(IF HasInteractive THEN "interactive" ELSE "doom loop")
C6_Witness ==
    /\ OverRequested /\ outcome = "doom loop" /\ tripCall = 0
    /\ \E n \in ToolNames : dispatched[n] = doomLoopNameThreshold

\* C7: a tool failure classified Auth (after the retry, if one was made)
\* ends the run with the auth_error error: no tool-result turn is recorded
\* for the failed call, no later call of a sequential batch is executed, and
\* the model is not called again (a parallel batch is first joined).
AuthFailures == {f \in failed : ClassifyError(f.raw).type = "auth_error"}
Recorded(id) ==
    \E turns \in {allTurns, messages, stored} :
        \E i \in 1..Len(turns) : turns[i].role = "tool" /\ turns[i].id = id
C7_AuthAborts ==
    \A f \in AuthFailures :
        /\ pc \in {"par", "done"}
        /\ pc = "done" => outcome = "auth_error"
        /\ ~Recorded(f.id)
        /\ idx > 0 => \A j \in (idx + 1)..Len(batch) : batch[j].st = "ready"
C7_Witness ==
    /\ pc = "done" /\ outcome = "auth_error" /\ AuthFailures # {}
    /\ idx = 1 /\ Len(batch) = 2 /\ batch[2].st = "ready"

\* C8 (as stated): every tool failure whose error text contains "401" is
\* classified Auth, not retryable, and aborts the run with the auth signal.
Has401(raw) == containsAny(raw, {"401"})
IsAuthAbort(raw) ==
    /\ ClassifyError(raw).type = "auth_error" /\ ~ClassifyError(raw).retryable
    /\ pc \in {"par", "done"}
    /\ pc = "done" => outcome = "auth_error"
C8_Original == \A f \in failed : Has401(f.raw) => IsAuthAbort(f.raw)
\* C8 (amended): the same for every failure whose text contains "401" and
\* neither "timeout" nor "context deadline exceeded"; a text that has one of
\* these too is classified Timeout, is retried once, and does not abort.
HasTimeout(raw) == containsAny(raw, {"context deadline exceeded", "timeout"})
C8_Auth401 ==
    \A f \in failed : (Has401(f.raw) /\ ~HasTimeout(f.raw)) => IsAuthAbort(f.raw)
C8_Witness ==
    /\ pc = "done" /\ outcome = "auth_error" /\ idx = 0
    /\ \E f \in failed : Has401(f.raw) /\ ~HasTimeout(f.raw)

\* C9: more than one tool call is in progress only when every call of the
\* model turn names a registered read-only tool; a turn with a mutating or
\* unknown call runs its calls one at a time in the order requested.
Running == {i \in 1..Len(batch) : batch[i].st \in {"run1", "run2"}}
C9_Dispatch ==
    /\ Cardinality(Running) > 1 =>
          \A i \in 1..Len(batch) : batch[i].name \in ReadOnlyTools
    /\ (pc \in {"seq", "par"} /\ \E i \in 1..Len(batch) : batch[i].name \notin ReadOnlyTools) =>
          /\ Running = {idx}
          /\ \A j \in 1..(idx - 1) : batch[j].st = "done"
          /\ \A j \in (idx + 1)..Len(batch) : batch[j].st = "ready"
C9_Witness ==
    /\ pc = "par" /\ Cardinality(Running) = 2
    /\ \A i \in 1..Len(batch) : batch[i].name \in ReadOnlyTools

\* C10: each incremental recovery from a context-overflow error retries
\* the model call with strictly fewer messages than the request that failed.
C10_StrictlyFewer ==
    [][(ModelContextError(TRUE) /\ pruneAttempt' = pruneAttempt + 1 /\ pc' = "model")
          => Len(messages') < Len(messages)]_vars

\* C11: the last resort comes only after the incremental attempts have
\* failed, it leaves the store empty and the request reduced to the system
\* prompt and the current user message, and a run that cleared the store
\* has made exactly one model call after the clear.
C11_ClearThenRetryOnce ==
    firstClear > 0 =>
        /\ firstClear > maxPruneAttempts
        /\ pc = "model" => messages = <<Sys, UserTurn>> /\ stored = <<>>
        /\ pc = "done" => clears = 1 /\ modelCalls = firstClear + 1

\* C12: when every recovery attempt of a run has failed (the incremental
\* attempts and the retry after the clear), then once the user has been
\* answered the stored history is empty and the answer says that the
\* conversation was reset.
RecoveryExhausted == clears = 2
C12_ResetAfterFailedRecovery ==
    (pc = "replied" /\ RecoveryExhausted) =>
        stored = <<>> /\ reply = "conversation reset"

\* C13: for every turn sequence, what BoltStore.SaveHistory writes has at
\* most maxConversationTurns turns and does not begin with a tool turn.
C13_CapAndHead ==
    saves = 1 =>
        /\ Len(stored) <= maxConversationTurns
        /\ stored # <<>> => stored[1].role # "tool"
C13_Witness ==
    /\ saves = 1 /\ Len(allTurns) > maxConversationTurns
    /\ Capped(allTurns)[1].role = "tool" /\ stored # <<>>

\* C14: for every turn sequence, what BoltStore.SaveHistory writes is
\* estimated at no more than maxHistoryTokens or has at most 2 turns, and
\* the token pruning leaves at least 2 turns of a sequence that had 2.
C14_TokenBudget ==
    saves = 1 =>
        /\ estimateTokens(stored) <= maxHistoryTokens \/ Len(stored) <= 2
        /\ Len(allTurns) >= 2 => Len(TokenPruned(Compressed(Capped(allTurns)))) >= 2
C14_Witness ==
    /\ saves = 1 /\ Len(allTurns) > 2
    /\ Len(stored) = 2 /\ estimateTokens(stored) > maxHistoryTokens


\* C15: a call of a tool with a non-nil schema whose arguments fail the
\* validation returns a validation failure and Execute was not called
InvalidCall == call.known /\ ~call.schema.nil /\ validateArgs(call.schema, call.args) # ""
C15_NoExecuteOnInvalid ==
    (ret.returned /\ InvalidCall) => ~ret.executed /\ ret.type = "validation"
C15_Witness == ret.returned /\ InvalidCall /\ ret.type = "validation"


\* the call reaches validateArgs; a required field is missing or null
Validated == ret.returned /\ call.known /\ ~call.schema.nil
Rejected == ret.type = "validation"
RequiredFields == {call.schema.required[i] : i \in 1..Len(call.schema.required)}
SomeRequiredMissing == \E f \in RequiredFields : call.args[f] \in {Absent, Null}
\* the value has the type the property declares (any value when the
\* property is not declared or declares another type)
OfDeclaredType(prop, v) ==
    /\ v \notin {Absent, Null}
    /\ prop.type = "string" => v.kind = "string" /\ (prop.enum # {} => v.s \in prop.enum)
    /\ prop.type \in {"integer", "number"} => v.kind = "number"
AllOfDeclaredType ==
    \A f \in RequiredFields : OfDeclaredType(call.schema.properties[f], call.args[f])
NoEmptyString ==
    \A f \in RequiredFields :
        call.schema.properties[f].type = "string" => call.args[f] # Str("")

\* C16 as stated: rejected when a required field is missing or null,
\* accepted when every required field has a value of the declared type
C16_Original ==
    Validated => /\ SomeRequiredMissing => Rejected
                 /\ AllOfDeclaredType => ~Rejected
\* C16: rejected when a required field is missing or null, accepted when
\* every required field has a value of the declared type and no required
\* string is empty
C16_ValidateArgs ==
    Validated => /\ SomeRequiredMissing => Rejected
                 /\ (AllOfDeclaredType /\ NoEmptyString) => ~Rejected
C16_Witness ==
    /\ Validated /\ ~Rejected /\ ret.executed
    /\ Len(call.schema.required) = 2
    /\ call.schema.properties["f1"].enum # {}
    /\ call.schema.properties["f2"].type = "integer"


\* the tool ran and succeeded, and ExecuteTool returned its result
Succeeded == ret.returned /\ ret.executed /\ ret.err = ""
LongLists == {k \in ListKeys : call.result.count[k] > maxListItems}
\* C17: when a successful result has a list of more than maxListItems
\* records, every such list comes back with at most maxListItems records,
\* the truncation flag is set and the original count is recorded
C17_EveryLongListCut ==
    (Succeeded /\ LongLists # {}) =>
        /\ \A k \in LongLists : ret.result.count[k] <= maxListItems
        /\ ret.result.truncated
        /\ ret.result.original = call.result.count[ret.result.field]

\* C18: a successful result is returned within maxOutputLen bytes, or as
\* the marker with the clipped summary
C18_CeilingAfterListCut ==
    Succeeded => Marshalled(ret.result) <= maxOutputLen \/ ret.result.summary


\* C19: respond_interactive is never dispatched to the registry, and a model
\* turn that requests it (alone or with other calls) ends the run at once
\* with the interactive reply: no call of that turn is executed and the
\* model is not called again
C19_InteractiveReturns ==
    /\ dispatched["respond_interactive"] = 0
    /\ HasInteractive => EndsBeforeDispatch("interactive") /\ session = "closed"
C19_Witness ==
    /\ HasInteractive /\ outcome = "interactive" /\ pc = "done"
    /\ Len(batch) = 2 /\ modelCalls > 1
    /\ \E n \in ToolNames \ {"respond_interactive"} : dispatched[n] > 0


\* the run ended with the model's plain answer, a turn without tool calls
Answered == pc = "done" /\ outcome = "final"
EndsWithAnswer(turns) ==
    turns # <<>> /\ turns[Len(turns)] = Turn("assistant", <<>>, 0)
\* C20: a response without tool calls ends the run with the plain-text
\* reply: the transcript (the history, the new user turn and every turn
\* appended during the run, the last one being that answer) has been handed
\* to the store exactly once, and no call is left running
C20_PersistsTranscript ==
    Answered =>
        /\ saves = 1
        /\ EndsWithAnswer(transcript)
        /\ allTurns = transcript
        /\ stored = SaveHistory(transcript)
        /\ batch = <<>> /\ session = "closed"


\* C21: the fixed "too complex" reply is given only after the loop has made
\* all maxToolIterations iterations, each with its model call; the run then
\* has saved its turns once and returns no error
C21_Exhaustion ==
    outcome = "exhausted" =>
        /\ pc = "done" /\ session = "closed"
        /\ iter = maxToolIterations /\ modelCalls = maxToolIterations
        /\ saves = 1 /\ stored = SaveHistory(allTurns)
        /\ outcome \notin HandleErrors
C21_Witness ==
    /\ outcome = "exhausted" /\ pc = "done" /\ clears = 0 /\ pruneAttempt = 0
    /\ saves = 1 /\ Len(stored) > 2 * maxToolIterations
    /\ \E n \in ToolNames : dispatched[n] > 0


\* what the executions of the calls of the current batch, and of the
\* get_ticket calls already answered, came back with
Executions ==
    {batch[i].tries : i \in 1..Len(batch)} \cup {r.tries : r \in reported}
RetryableKinds == {"timeout", "rate_limit", "server_error"}
TerminalKinds == {"auth_error", "not_found", "session_error", "validation"}
ServerMarkers == {"500", "502", "503", "504", "server error", "internal error"}
\* C22: a requested call is executed at most twice; it is executed a second
\* time only after a first failure classified Timeout, RateLimit or
\* ServerError by a marker, never after one classified Auth, NotFound,
\* SessionError or Validation; the result reported is that of the last
\* execution
C22_AtMostOneRetry ==
    /\ \A t \in Executions :
        /\ Len(t) <= 2
        /\ Len(t) = 2 =>
              /\ t[1] # {"ok"}
              /\ ClassifyError(t[1]).type \in RetryableKinds
              /\ ClassifyError(t[1]).type = "server_error" => containsAny(t[1], ServerMarkers)
        /\ (t # <<>> /\ t[1] # {"ok"} /\ ClassifyError(t[1]).type \in TerminalKinds) =>
              Len(t) = 1
    /\ \A r \in reported :
        r.tries # <<>> /\ r.result = ToolResult(r.tries[Len(r.tries)])
    /\ \A i \in 1..Len(batch) :
        /\ batch[i].st = "run1" => batch[i].tries = <<>>
        /\ batch[i].st = "run2" => Len(batch[i].tries) = 1
C22_Witness ==
    \E r \in reported :
        /\ Len(r.tries) = 2
        /\ ClassifyError(r.tries[1]).type = "rate_limit"
        /\ r.result.type = "not_found"


\* C23: a call that Registry.ExecuteTool rejects in its argument validation
\* is executed once and reported to the model as an error of type validation
C23_ValidationReported ==
    \A r \in reported :
        r.tries[1] = ValidationFailure =>
            /\ Len(r.tries) = 1
            /\ r.result.status = "error"
            /\ r.result.type = "validation"


\* the failures the model call is retried on: a transport failure, 429, 5xx
RetryWorthy(x) == x.err # "" \/ x.code = 429 \/ x.code \in 500..599
Returned == chat.result # "none"
\* C25: chatCompletion makes at most retryMaxAttempts attempts, sleeps
\* between them a delay that doubles from retryInitialDelay and stays within
\* retryMaxDelay, repeats an attempt only after a transport failure, a 429
\* or a 5xx, and gives such a failure up only when the attempts are used up
C25_RetryWithBackoff ==
    Returned =>
        /\ chat.attempt <= retryMaxAttempts
        /\ Len(chat.slept) = chat.attempt - 1
        /\ \A i \in 1..Len(chat.slept) :
              /\ chat.slept[i] <= retryMaxDelay
              /\ chat.slept[i] = IF i = 1 THEN retryInitialDelay ELSE 2 * chat.slept[i - 1]
        /\ \A i \in 1..(chat.attempt - 1) : RetryWorthy(chat.responses[i])
        /\ (chat.result # "ok" /\ RetryWorthy(chat.responses[chat.attempt])) =>
              chat.attempt = retryMaxAttempts


\* C24: once the caller's ctx is cancelled, the run writes nothing to the
\* store: no SaveHistory happens after the cancellation
C24_NoSaveAfterCancel == [][cancelled => saves' = saves /\ stored' = stored]_vars


\* the failures reported to the model, with the text of the last execution
Failures == {r \in reported : r.result.status = "error"}
LastRaw(r) == r.tries[Len(r.tries)]
AuthReply == pc = "replied" /\ outcome = "auth_error" => reply = "session expired"
\* C26 as stated: two failures of the same kind other than validation give
\* the model the same type and message, and the user the same text
C26_Original ==
    /\ \A r1, r2 \in Failures :
          (r1.result.type = r2.result.type /\ r1.result.type # "validation") =>
              r1.result.message = r2.result.message
    /\ AuthReply
\* C26: two failures of the same kind other than validation, both matched
\* by a marker of the classifier or both unrecognised, give the model the
\* same type and message whatever their text, and the user the same text
C26_KindDecides ==
    /\ \A r1, r2 \in Failures :
          ( /\ r1.result.type = r2.result.type
            /\ r1.result.type # "validation"
            /\ ClassifyError(LastRaw(r1)).retryable = ClassifyError(LastRaw(r2)).retryable ) =>
              r1.result.message = r2.result.message
    /\ AuthReply
C26_Witness ==
    \E r1, r2 \in Failures :
        /\ LastRaw(r1) = {"connection refused"} /\ LastRaw(r2) = ValidationFailure
        /\ r1.result.type = r2.result.type
        /\ r1.result.message = r2.result.message


\* the assistant turn that the turn at position i of t answers: the nearest
\* assistant turn before it, 0 when there is none
Requester(t, i) ==
    LET before == {j \in 1..(i - 1) : t[j].role = "assistant"} IN
    IF before = {} THEN 0 ELSE CHOOSE j \in before : \A k \in before : k <= j
\* the next assistant turn after position j of t, 0 when there is none
NextAssistant(t, j) ==
    LET after == {k \in (j + 1)..Len(t) : t[k].role = "assistant"} IN
    IF after = {} THEN 0 ELSE CHOOSE k \in after : \A m \in after : k <= m
Ids(calls) == {calls[i] : i \in 1..Len(calls)}
CausalOrder(t) ==
    /\ t # <<>> => t[1].role = "user"
    /\ \A i \in 1..Len(t) :
          t[i].role = "tool" =>
              /\ Requester(t, i) # 0
              /\ t[i].id \in Ids(t[Requester(t, i)].calls)
              /\ \A k \in (Requester(t, i) + 1)..i : t[k].role = "tool"
    /\ \A j \in 1..Len(t) :
          (t[j].role = "assistant" /\ NextAssistant(t, j) # 0) =>
              /\ NextAssistant(t, j) = j + 1 + Len(t[j].calls)
              /\ \A c \in Ids(t[j].calls) :
                    Cardinality({k \in (j + 1)..(NextAssistant(t, j) - 1) : t[k].id = c}) = 1
\* C27: the turns a run appends are in causal order: the user turn first,
\* after an assistant turn that requests tools exactly one tool-result turn
\* per requested call before the next assistant turn, and no tool-result
\* turn before the assistant turn that requested it
C27_CausalOrder == CausalOrder(transcript)
C27_Witness ==
    /\ Len(transcript) >= 7
    /\ \E j \in 1..Len(transcript) :
          /\ Len(transcript[j].calls) = 2
          /\ NextAssistant(transcript, j) = j + 3
          /\ Len(transcript[j + 3].calls) = 1
    /\ pc = "done" /\ outcome = "final"


\* the tool messages of a request that no earlier assistant message of the
\* request asked for
Orphans(msgs) ==
    {i \in 1..Len(msgs) :
        /\ msgs[i].role = "tool"
        /\ ~\E j \in 1..(i - 1) : /\ msgs[j].role = "assistant"
                                  /\ msgs[i].id \in Ids(msgs[j].calls)}
\* C28: in every request about to be sent to the model (the first one of a
\* run, the one after proactive pruning, the one after each incremental
\* recovery), every tool message comes after an assistant message of the
\* same request that carries a tool invocation with its call id.
C28_NoOrphans == pc = "model" => Orphans(messages) = {}
\* a request after proactive pruning: the older half of a parallel batch was
\* dropped for the budget, its other half as an orphan, and the results of
\* the later batch are still there behind their assistant message
C28_Witness ==
    /\ pc = "model" /\ pruneAttempt = 0
    /\ Len(messages) < Len(transcript)
    /\ \E i \in 1..Len(transcript) :
          /\ transcript[i].role = "tool"
          /\ ~\E k \in 1..Len(messages) :
                 messages[k].role = "tool" /\ messages[k].id = transcript[i].id
    /\ \E k \in 1..Len(messages) : messages[k].role = "tool"
    /\ messages[2].role = "assistant"


\* C29: the step that answers a run ended by the auth failure deletes the
\* user's record and sends a verification link; a message that finds no
\* record is answered with a verification link and nothing of Agent.Handle
\* runs for it; and the record only comes back by a linking, never by a
\* step of the bot handler.
C29_RelinkAfterAuthFailure ==
    [][ /\ (pc = "done" /\ outcome = "auth_error" /\ pc' = "replied") =>
               (Phone \notin users' /\ inbox \in links')
        /\ (pc = "start" /\ Phone \notin users /\ pc' # "start") =>
               /\ pc' = "replied" /\ reply' = "verification link" /\ inbox \in links'
               /\ modelCalls' = 0 /\ session' = "none" /\ outcome' = "none"
               /\ UNCHANGED <<stored, counters>>
        /\ (Phone \in users' /\ Phone \notin users) =>
               UNCHANGED <<pc, inbox, links, reply, outcome, session, modelCalls>> ]_vars
\* the first message's run saved its turns and ended with the auth failure;
\* the second message found no record and got the verification link
C29_Witness ==
    /\ inbox = 2 /\ pc = "replied" /\ reply = "verification link"
    /\ links = {1, 2} /\ stored # <<>> /\ Phone \notin users
    /\ modelCalls = 0 /\ session = "none"


\* the lock table with the fair mutex of the runtime: a goroutine blocked in
\* ul.mu.Lock() gets the mutex once it is free often enough (sync.Mutex hands
\* a starving waiter the lock), and a goroutine that can take a step of its
\* own (the timestamp, the return of a terminating fn) takes it
LockFairness ==
    \A p \in Procs :
        /\ SF_vars(WithLockAcquire(p))
        /\ WF_vars(WithLockTouch(p))
        /\ WF_vars(\E err \in FnResults : WithLockReturn(p, err))
SpecLockFair == LockInit /\ [][LockNext]_vars /\ LockFairness

\* the goroutines that hold the userLock goroutine p is blocked on
Blockers(p) ==
    IF wpc[p] = "acquire" /\ lockHeld[wul[p]] # 0 THEN {lockHeld[wul[p]]} ELSE {}
\* C30: a WithLock call only ever waits for a critical section of its own
\* user; the step in which fn returns, with an error or without, leaves the
\* userLock free; and with a fair mutex and terminating fns every call that
\* has fetched its userLock gets to run its fn.
C30_ParallelUsers ==
    /\ [](\A p \in Procs : \A q \in Blockers(p) : wuser[q] = wuser[p])
    /\ [][\A p \in Procs :
             (wpc[p] = "fn" /\ wpc'[p] = "idle") => lockHeld'[wul[p]] = 0]_vars
    /\ \A p \in Procs : (wpc[p] = "acquire") ~> (wpc[p] = "fn")
\* one goroutine is inside fn for u1 after an earlier call returned an error,
\* while the other runs fn for u2
C30_Witness ==
    \E p, q \in Procs :
        /\ wpc[p] = "fn" /\ wuser[p] = "u1" /\ wret[q] = "error"
        /\ wpc[q] = "fn" /\ wuser[q] = "u2"


\* the accesses to a userLock's lastUsed that goroutines are in the middle
\* of: who, which userLock, read or write, and the mutexes held meanwhile
\* (0 is Manager.mu, l is the mu of userLock l)
PendingAccesses ==
    {[by |-> p, field |-> wul[p], write |-> TRUE, locks |-> {wul[p]}] :
        p \in {q \in Procs : wpc[q] = "touch"}}
    \cup {[by |-> 0, field |-> mutexes[u], write |-> FALSE, locks |-> {0}] :
        u \in {v \in Users : sweep = "scan" /\ mutexes[v] # 0}}
\* C31: two goroutines never access the same lastUsed at the same time, one
\* of them writing, without a mutex that both hold.
C31_GuardedAccess ==
    \A a, b \in PendingAccesses :
        (a.by # b.by /\ a.field = b.field /\ (a.write \/ b.write)) =>
            a.locks \cap b.locks # {}


\* the tool turns of batch b in the order of the model's request
InRequestOrder(b) == [i \in 1..Len(b) |-> ToolTurn(b[i].name, b[i].id)]
\* C32: no model call is made while a parallel batch is running; the step
\* that leaves the batch finds every call completed, each executed at least
\* once, whatever the others came back with; and when the run goes on, the
\* tool turns it appends are those of the calls in the order of the request.
C32_JoinedInOrder ==
    [][ /\ pc = "par" => modelCalls' = modelCalls
        /\ (pc = "par" /\ pc' # "par") =>
              /\ \A i \in 1..Len(batch) : batch[i].st = "done" /\ batch[i].tries # <<>>
              /\ outcome' # "auth_error" =>
                    transcript' = transcript \o InRequestOrder(batch) ]_vars
\* a joined batch of two calls: the second completed first, with a failure
\* that is not retried, the first completed after it with a result, and the
\* turns are in the order of the request
C32_Witness ==
    /\ pc = "model" /\ Len(transcript) >= 4
    /\ \E r1, r2 \in reported :
          /\ r1.id < r2.id /\ r1.at = 2 /\ r2.at = 1
          /\ r1.result.status = "ok" /\ r2.result.status = "error"
          /\ transcript[Len(transcript) - 1].id = r1.id
          /\ transcript[Len(transcript)].id = r2.id


\* C33: the step that clears the memory comes after at least maxPruneAttempts
\* failures in a row, each answered by an incremental attempt (so never at
\* the first, second or third failure in a row), and it leaves the
\* transcript with the current message alone; a model call that succeeds
\* puts pruneAttempt back to 0.
C33_ClearIsLastResort ==
    [][ /\ clears' = clears + 1 =>
              /\ streak >= maxPruneAttempts /\ pruneAttempt = maxPruneAttempts
              /\ allTurns' = <<UserTurn>>
        /\ (modelCalls' = modelCalls + 1 /\ streak' = 0) => pruneAttempt' = 0
        /\ (pc = "model" /\ streak' = streak + 1 /\ streak < maxPruneAttempts) =>
              pruneAttempt' = pruneAttempt + 1 /\ clears' = clears ]_vars
\* the fourth failure in a row cleared the memory, after a model call that
\* had succeeded earlier in the run
C33_Witness ==
    /\ clears = 1 /\ streak = maxPruneAttempts + 1 /\ modelCalls = streak + 1
    /\ nextId > 0


\* what identifies a message or turn: role, requested calls, call id
Bare(t) == [i \in 1..Len(t) |-> [role |-> t[i].role, calls |-> t[i].calls, id |-> t[i].id]]
IsSuffix(a, b) == Len(a) <= Len(b) /\ a = SubSeq(b, Len(b) - Len(a) + 1, Len(b))
\* C34: the request about to be sent starts with the system message, is
\* within maxMessageTokenBudget unless no more than 2 messages are left, has
\* no tool message directly after the system message, and (as long as the
\* memory has not been cleared) is the system message followed by the most
\* recent turns of the conversation: the oldest went first.
C34_ProactiveBudget ==
    pc = "model" =>
        /\ messages # <<>> /\ messages[1] = Sys
        /\ \A i \in 2..Len(messages) : messages[i].role # "system"
        /\ estimateMessagesTokens(messages) <= maxMessageTokenBudget \/ Len(messages) <= 2
        /\ Len(messages) > 1 => messages[2].role # "tool"
        /\ clears = 0 => IsSuffix(Bare(Tail(messages)), Bare(transcript))
\* a request that pruneMessages has cut: the whole conversation is over the
\* budget, no recovery took place, and more than the last two messages are left
C34_Witness ==
    /\ pc = "model" /\ streak = 0 /\ pruneAttempt = 0 /\ clears = 0
    /\ estimateMessagesTokens(<<Sys>> \o transcript) > maxMessageTokenBudget
    /\ Len(messages) > 2 /\ Len(messages) <= Len(transcript)
    /\ estimateMessagesTokens(messages) > maxMessageTokenBudget \div 2


\* the marker groups in the order of precedence, with the kind of each and
\* whether a failure of that kind is worth a retry
MarkerGroups ==
    << [kind |-> "timeout", retry |-> TRUE,
        markers |-> {"context deadline exceeded", "timeout"}],
       [kind |-> "auth_error", retry |-> FALSE,
        markers |-> {"401", "unauthorized", "invalid.*token", "ERROR_SESSION_TOKEN_INVALID"}],
       [kind |-> "not_found", retry |-> FALSE, markers |-> {"404", "not found", "item not found"}],
       [kind |-> "rate_limit", retry |-> TRUE,
        markers |-> {"429", "rate limit", "too many requests"}],
       [kind |-> "server_error", retry |-> TRUE,
        markers |-> {"500", "502", "503", "504", "server error", "internal error"}],
       [kind |-> "session_error", retry |-> FALSE, markers |-> {"session", "sessao", "initSession"}],
       [kind |-> "validation", retry |-> FALSE,
        markers |-> {"argumento", "obrigatorio", "invalido", "deve ser"}] >>
Matching(raw) == {g \in 1..Len(MarkerGroups) : containsAny(raw, MarkerGroups[g].markers)}
FirstMatching(raw) == CHOOSE g \in Matching(raw) : \A h \in Matching(raw) : g <= h
C36_WindowReset ==
    /\ [](\A u \in Users :
            counters[u].ok =>
                /\ counters[u].window = winStart[u]
                /\ now - winStart[u] > rateLimitWindow => allowRequest(counters[u], now).allowed)
    /\ [][\A u \in Users :
            /\ (counters[u].ok /\ counters'[u] # counters[u]) =>
                  IF now - counters[u].window > rateLimitWindow
                    THEN counters'[u] = [ok |-> TRUE, count |-> 1, window |-> now]
                    ELSE counters'[u] = [counters[u] EXCEPT !.count = counters[u].count + 1]
            /\ (lastRun'[u] # lastRun[u] /\ lastRun'[u].resp = "throttled") =>
                  counters'[u] = counters[u] ]_vars
\* a user who was throttled is admitted with a new window: the bucket was
\* full, and its count is 1 again with the window starting now
C36_Witness ==
    \E u \in Users :
        /\ lastRun[u].after = "throttled" /\ lastRun[u].resp # "throttled"
        /\ counters[u] = [ok |-> TRUE, count |-> 1, window |-> now]
        /\ now > rateLimitWindow


\* the tool invocations of turns t that no tool-result turn of t answers
Unanswered(t) ==
    {c \in UNION {Ids(t[j].calls) : j \in {k \in 1..Len(t) : t[k].role = "assistant"}} :
        ~\E i \in 1..Len(t) : t[i].role = "tool" /\ t[i].id = c}
\* C37: in what a run has persisted, every tool invocation of every
\* assistant turn has a tool-result turn with the same call id.
C37_EveryCallAnswered ==
    (pc = "done" /\ saves > 0 /\ clears = 0) => Unanswered(stored) = {}


\* C38: every request sent to the model contains the user message that
\* started the run.  The request is the system message and a suffix of
\* the conversation (history, then the user message, then this run's
\* turns), so it holds the user message exactly when it is at least as
\* long as the part of the conversation that starts at the user message.
C38_UserMessageSent ==
    (pc = "model" /\ clears = 0) =>
        /\ \E i \in 2..Len(messages) : messages[i].role = "user"
        /\ Len(messages) - 1 >= Len(transcript) - Len(stored)


\* the exits of Handle before a helpdesk session exists
C39_NoSessionExits == {"throttled", "initSession"}
\* C39: a run that opened a helpdesk session closes it exactly once, at
\* the step on which Handle returns and on every exit path; a throttled
\* run and a run whose InitSession fails open and close no session.
C39_SessionClosedOnce ==
    /\ [](/\ pc = "start" => session = "none"
          /\ pc \in {"model", "seq", "par"} => session = "open"
          /\ pc \in {"done", "replied"} =>
                session = IF outcome \in C39_NoSessionExits THEN "none" ELSE "closed")
    /\ [][/\ session # "open" /\ session' = "open" => session = "none" /\ pc = "start"
          /\ session # "closed" /\ session' = "closed" =>
                session = "open" /\ pc # "done" /\ pc' = "done"
          /\ session = "open" /\ pc' = "done" => session' = "closed"
          /\ session = "closed" => session' = "closed"]_vars
\* a run ended by the authentication abort of a tool batch, session closed
C39_Witness ==
    /\ pc = "done" /\ outcome = "auth_error" /\ session = "closed" /\ modelCalls > 0


\* the input of SaveHistory with every turn tagged by its position, and
\* what SaveHistory keeps of it
C40_Tagged == [i \in 1..Len(allTurns) |-> [allTurns[i] EXCEPT !.id = i]]
C40_Kept == SaveHistory(C40_Tagged)
\* C40: what SaveHistory persists is a contiguous suffix of its input in
\* the original order, every kept turn with the role it had, at most
\* maxConversationTurns long and not starting with a tool turn.
C40_SavesSuffix ==
    saves = 1 =>
        /\ stored = [i \in 1..Len(C40_Kept) |-> [C40_Kept[i] EXCEPT !.id = 0]]
        /\ Len(stored) <= Len(allTurns) /\ Len(stored) <= maxConversationTurns
        /\ \A i \in 1..Len(stored) :
              LET j == Len(allTurns) - Len(stored) + i IN
              /\ C40_Kept[i].id = j
              /\ stored[i].role = allTurns[j].role
              /\ stored[i].calls = allTurns[j].calls
        /\ stored # <<>> => stored[1].role # "tool"
\* an input over the cap from which the cap, the token pruning and the
\* leading-tool repair each dropped turns
C40_Witness ==
    /\ saves = 1 /\ Len(allTurns) > maxConversationTurns
    /\ Len(TokenPruned(Compressed(Capped(allTurns)))) < maxConversationTurns
    /\ Len(stored) < Len(TokenPruned(Compressed(Capped(allTurns))))
    /\ Len(stored) > 1

====
